---------------------------- MODULE Spec2Model ----------------------------
(***************************************************************************)
(* Report-generation follower (Algorithm 2) and managed-oracle supervisor  *)
(* of libocr's offchainreporting package.                                  *)
(*                                                                         *)
(* Spec          the follower: one reportGenerationState handling the four *)
(*               inbound message kinds, with its outbound channel sends.   *)
(* SpecCancel    Spec with its selects scheduled fairly and receivers that *)
(*               may never receive.                                        *)
(* SpecReportReq the follower in a round it has just entered, handling one *)
(*               ReportReq drawn from every shape of observation list.     *)
(* SpecShouldReport  the follower handling a ReportReq that passes the     *)
(*               guards, over every answer of the contract.                *)
(* SpecCalls     the four calls of external collaborators, each with its   *)
(*               timeout, over collaborators that may never return.        *)
(* SpecManaged   managedOracleState.run with the protocol task, the other  *)
(*               subprocesses and the config tracker around it.            *)
(* SpecShutdown SpecManaged with its tasks scheduled fairly.              *)
(* SpecBootstrap one BootstrapNode with callers of Start and Close that    *)
(*               race.                                                     *)
(***************************************************************************)
EXTENDS Integers, Sequences, FiniteSets, TLC

VARIABLES
    r,              \* followerState.r
    sentEcho,       \* followerState.sentEcho: {} is nil, {rep} is &rep
    sentReport,     \* followerState.sentReport
    completedRound, \* followerState.completedRound
    receivedEcho,   \* followerState.receivedEcho: [OracleIDs -> BOOLEAN]
    pc,             \* where the follower task stands: "idle" between two
                    \* messages, waiting in observeValue or in
                    \* shouldReport, or blocked in one of the three selects
    ctxDone,        \* repgen.ctx has been cancelled
    log,            \* what the last handler logged: [h |-> handler, m |-> text]
    net,            \* messages the last step handed to netSender
    ev,             \* events the last step put on an outbound channel
    sameEcho,       \* history: the senders whose accepted FinalEcho of the
                    \* round carried the report held in sentEcho
    changeLeaders,  \* history: the number of EventChangeLeader the pacemaker
                    \* has taken from the follower in this epoch
    details,        \* SpecShouldReport: what LatestTransmissionDetails
                    \* returns to the follower
    result,         \* SpecShouldReport: what shouldReport returned, "none"
                    \* before the call
    calls,          \* SpecCalls: where each call of an external
                    \* collaborator stands
    inbox,          \* the observations of the ReportReq the follower is
                    \* handling (msg of messageReportReq); in SpecReportReq
                    \* and SpecShouldReport those of the ReportReq in flight
    mpc,            \* where managedOracleState.run stands
    ret,            \* what called configChanged or closeOracle
    moCtxDone,      \* mo.ctx has been cancelled
    chNewConfig,    \* number of configs buffered in chNewConfig
    nconf,          \* number of configChanged calls so far; the call in
                    \* progress, its endpoint and its task bear this number
    moConfig,       \* mo.config: the config decoded last, 0 the zero value
    chTelemetry,    \* mo.chTelemetry is not nil
    netEndpoint,    \* mo.netEndpoint: 0 is nil
    oracleCancel,   \* mo.oracleCancel: 0 is nil
    endpoint,       \* state of the endpoint made by each configChanged
    task,           \* state of the RunOracle task of each configChanged
    oracleCtxDone,  \* the oracleCtx on which oracleCancel has been called
    otherTasks,     \* running tasks of mo.otherSubprocesses
    persisted,      \* the config the database holds, 0 none
    mlog,           \* what the supervisor logged last
    started,        \* b.started: the semaphore of weight 1 is held
    bCancel,        \* b.cancel is not nil
    bCtxDone,       \* the context made by Start has been cancelled
    subprocesses,   \* b.subprocesses: tasks started with Go and not done
    bootstrapTask,  \* the task running RunManagedBootstrapNode
    callers         \* where each caller of Start and Close stands

follower == <<r, sentEcho, sentReport, completedRound, receivedEcho>>
fvars == <<r, sentEcho, sentReport, completedRound, receivedEcho,
           pc, ctxDone, log, net, ev, sameEcho, changeLeaders>>
managed == <<mpc, ret, moCtxDone, chNewConfig, nconf, moConfig, chTelemetry,
             netEndpoint, oracleCancel, endpoint, task, oracleCtxDone,
             otherTasks, persisted, mlog>>
bootstrap == <<started, bCancel, bCtxDone, subprocesses, bootstrapTask,
               callers>>
outside == <<details, result, calls, bootstrap>>
vars == <<fvars, inbox, outside, managed>>

---------------------------------------------------------------------------
(* Configuration of the instance (scenario values of the committee).       *)

\* repgen.config.N(): committee size
N == 4
\* repgen.config.F: fault bound
F == 1
\* repgen.e: the epoch this reportGenerationState was created for
e == 1
\* repgen.l: the leader of epoch e
l == 0
\* repgen.config.RMax: rounds per epoch
RMax == 2

OracleIDs == 0 .. (N - 1)

\* OracleID values a message can name: N stands for every out-of-range id
AnyOracleIDs == 0 .. N

\* followerReportContext: ReportContext{ConfigDigest, e, r}; the digest is
\* the instance's own and the same in every context of the model.
followerReportContext == [epoch |-> e, round |-> r]

---------------------------------------------------------------------------
(* Bounds of the inputs.                                                   *)

\* report bodies 1..MaxBody: distinct attested reports for one context
MaxBody == 2
\* observation values 1..MaxVal
MaxVal == 2

Rounds == 0 .. (RMax + 2)          \* msg.Round of an inbound message
Epochs == {e, e + 1}               \* msg.Epoch of an inbound message
Contexts == [epoch : {e}, round : 0 .. (RMax + 1)]

---------------------------------------------------------------------------
(* Attested reports.  A signature is named by its signer (N: a key that is *)
(* no committee member's); all signatures of a report are over one context *)
(* and the report body.                                                    *)

\* F signers, F+1 distinct signers, F+1 with a repeated signer, F+1 with a
\* signer outside the committee
SigSeqs ==
    { [i \in 1 .. F |-> i - 1],
      [i \in 1 .. (F + 1) |-> i - 1],
      [i \in 1 .. (F + 1) |-> IF i = F + 1 THEN 0 ELSE i - 1],
      [i \in 1 .. (F + 1) |-> IF i = F + 1 THEN N ELSE i - 1] }

Reports == [body : 1 .. MaxBody, ctx : Contexts, sigs : SigSeqs]

\* AttestedReportMany.VerifySignatures: every signature is over (ctx, body)
\* by a committee member, and no member signs twice
VerifySignatures(report, ctx) ==
    /\ report.ctx = ctx
    /\ \A i \in 1 .. Len(report.sigs) : report.sigs[i] \in OracleIDs
    /\ \A i, j \in 1 .. Len(report.sigs) :
          i # j => report.sigs[i] # report.sigs[j]

\* verifyAttestedReport's verdict and log text
verifyAttestedReportLog(report) ==
    IF Len(report.sigs) <= F THEN "too few signatures"
    ELSE IF ~VerifySignatures(report, followerReportContext)
         THEN "could not validate signatures"
         ELSE "ok"

verifyAttestedReport(report) == verifyAttestedReportLog(report) = "ok"

---------------------------------------------------------------------------
(* Signed observations and verifyReportReq.  An off-chain signature is     *)
(* named by the key that made it and the context it was made over.         *)

\* SignedObservation.Verify(ctx, key): the signature is by key, over ctx
VerifyObservation(so, ctx, key) == so.key = key /\ so.ctx = ctx

\* sort.SliceIsSorted with Observation.Less: no entry is less than its
\* predecessor
SliceIsSorted(asos) ==
    \A i \in 2 .. Len(asos) : ~(asos[i].value < asos[i - 1].value)

\* checkObservers with the bound compared by < in place of <=
RECURSIVE checkObserversBelowBound(_, _, _)
checkObserversBelowBound(asos, i, counted) ==
    IF i > Len(asos)
    THEN IF Cardinality(counted) < 2 * F
         THEN "not enough observations" ELSE "ok"
    ELSE IF asos[i].observer < 0 \/ N <= asos[i].observer
         THEN "oracle ID out of bounds"
    ELSE IF asos[i].observer \in counted
         THEN "duplicate observation"
    ELSE IF ~VerifyObservation(asos[i], followerReportContext,
                               asos[i].observer)
         THEN "invalid signed observation"
    ELSE checkObserversBelowBound(asos, i + 1,
                                  counted \cup {asos[i].observer})

\* the loop of verifyReportReq from entry i on, counted being the observers
\* seen so far; the first offending entry decides the error
RECURSIVE checkObservers(_, _, _)
checkObservers(asos, i, counted) ==
    IF i > Len(asos)
    THEN IF Cardinality(counted) <= 2 * F
         THEN "not enough observations" ELSE "ok"
    ELSE IF asos[i].observer < 0 \/ N <= asos[i].observer
         THEN "oracle ID out of bounds"
    ELSE IF asos[i].observer \in counted
         THEN "duplicate observation"
    ELSE IF ~VerifyObservation(asos[i], followerReportContext,
                               asos[i].observer)
         THEN "invalid signed observation"
    ELSE checkObservers(asos, i + 1, counted \cup {asos[i].observer})

\* verifyReportReq: "ok" for a nil error, the error otherwise
verifyReportReq(asos) ==
    IF ~SliceIsSorted(asos) THEN "messages not sorted by value"
    ELSE checkObservers(asos, 1, {})

---------------------------------------------------------------------------
(* shouldReport.  ltd is what LatestTransmissionDetails returns: err, the  *)
(* contract's digest (as: equal to ours), epoch, round, answer and whether *)
(* timestamp + DeltaC lies before now.                                     *)

\* repgen.config.AlphaPPB
AlphaPPB == 600000000

Abs(x) == IF x < 0 THEN 0 - x ELSE x
Max(x, y) == IF x < y THEN y ELSE x

\* Observation.Deviates: |self - other| * 10^9 > alphaPPB * max(|other|, 1)
Deviates(self, other, alphaPPB) ==
    Abs(self - other) * 1000000000 > alphaPPB * Max(Abs(other), 1)

\* len(observations)/2, Go's integer division, as a 1-based index
MedianIndex(asos) == (Len(asos) \div 2) + 1

shouldReport(asos, ltd) ==
    IF ltd.err THEN TRUE
    ELSE IF ~ltd.answerInRange THEN FALSE
    ELSE LET initialRound == ltd.digestEq /\ ltd.epoch = 0 /\ ltd.round = 0
             deviation == Deviates(asos[MedianIndex(asos)].value,
                                   ltd.answer, AlphaPPB)
             deltaCTimeout == ltd.stale
         IN initialRound \/ deviation \/ deltaCTimeout

---------------------------------------------------------------------------
(* The follower's handlers.  A handler runs from the arrival of a message  *)
(* to its return, to the wait it makes or to the select it blocks in.  The *)
(* wait of observeValue for the data source and the wait of shouldReport   *)
(* for the contract each end in a step of their own, and the three selects *)
(* (ChangeLeader, Transmit, Progress) are steps of their own, taken when   *)
(* the receiver takes the event or when ctx is done.                       *)

NoEcho == [i \in OracleIDs |-> FALSE]

\* the number of true entries of receivedEcho
EchoCount(re) == Cardinality({i \in OracleIDs : re[i]})

Logged(h, m) == log' = [h |-> h, m |-> m]

\* an early return: nothing but the log line
Drop(h, m) ==
    /\ UNCHANGED <<follower, pc, ctxDone, sameEcho, changeLeaders>>
    /\ net' = {}
    /\ ev' = {}
    /\ Logged(h, m)

\* observeValue that takes the zero value of a failed Observe for an answer
observeValueDespiteError(ds) ==
    IF ds = "timeout" THEN "missing"
    ELSE IF ds = "outOfRange" THEN "missing"
    ELSE "value"

\* observeValue: ds is what the data source does within DataSourceTimeout
observeValue(ds) ==
    IF ds = "timeout" THEN "missing"        \* BlockForAtMost returned !ok
    ELSE IF ds = "error" THEN "missing"     \* Observe returned an error
    ELSE IF ds = "outOfRange" THEN "missing" \* MakeObservation failed
    ELSE "value"

DataSourceOutcomes == {"timeout", "error", "outOfRange", "ok"}
\* signing: the key provider fails, signs wrongly, or signs
SignOutcomes == {"signErr", "badSig", "ok"}

\* observeReqGuards without the "earlier round" guard
observeReqGuardsAnyRound(msg, sender) ==
    IF msg.epoch # e THEN "wrong epoch"
    ELSE IF sender # l THEN "non-leader"
    ELSE IF RMax + 1 < msg.round THEN "out of bounds round"
    ELSE "pass"

\* observeReqGuards without the "out of bounds round" guard
observeReqGuardsNoBound(msg, sender) ==
    IF msg.epoch # e THEN "wrong epoch"
    ELSE IF sender # l THEN "non-leader"
    ELSE IF msg.round <= r THEN "earlier round"
    ELSE "pass"

\* observeReqGuards with the round bound at RMax instead of RMax + 1
observeReqGuardsBoundAtRMax(msg, sender) ==
    IF msg.epoch # e THEN "wrong epoch"
    ELSE IF sender # l THEN "non-leader"
    ELSE IF msg.round <= r THEN "earlier round"
    ELSE IF RMax < msg.round THEN "out of bounds round"
    ELSE "pass"

\* the guards of messageObserveReq: the log text of the one that drops the
\* message, "pass" when none does
observeReqGuards(msg, sender) ==
    IF msg.epoch # e THEN "wrong epoch"
    ELSE IF sender # l THEN "non-leader"
    ELSE IF msg.round <= r THEN "earlier round"
    ELSE IF RMax + 1 < msg.round THEN "out of bounds round"
    ELSE "pass"

\* messageObserveReq up to its call of observeValue: the guards, the new
\* round, and either the expiry branch up to its select or the reset of the
\* round's state
messageObserveReq(msg, sender) ==
    /\ pc = "idle"
    /\ IF observeReqGuards(msg, sender) # "pass"
       THEN Drop("ObserveReq", observeReqGuards(msg, sender))
       ELSE /\ r' = msg.round
            /\ ev' = {}
            /\ net' = {}
            /\ UNCHANGED ctxDone
            /\ IF msg.round > RMax
               THEN /\ Logged("ObserveReq", "time to change leader")
                    /\ pc' = "sendChangeLeader"
                    /\ UNCHANGED <<sentEcho, sentReport, completedRound,
                                   receivedEcho, sameEcho, changeLeaders>>
               ELSE /\ sentEcho' = {}
                    /\ sentReport' = FALSE
                    /\ completedRound' = FALSE
                    /\ receivedEcho' = NoEcho
                    /\ sameEcho' = {}
                    /\ UNCHANGED <<changeLeaders, log>>
                    /\ pc' = "observeValue"

\* messageObserveReq from the return of observeValue to its own return: ds
\* is what the data source did within DataSourceTimeout, sg what signing
\* does
observeValueReturns(ds, sg) ==
    /\ pc = "observeValue"
    /\ pc' = "idle"
    /\ ev' = {}
    /\ UNCHANGED <<follower, ctxDone, sameEcho, changeLeaders>>
    /\ IF observeValue(ds) = "missing"
       THEN /\ Logged("ObserveReq", "missing value")
            /\ net' = {}
       ELSE IF sg = "signErr"
       THEN /\ Logged("ObserveReq", "could not make SignedObservation")
            /\ net' = {}
       ELSE IF sg = "badSig"
       THEN /\ Logged("ObserveReq", "invalid signature")
            /\ net' = {}
       ELSE /\ Logged("ObserveReq", "sent observation")
            /\ net' = {[t |-> "Observe", epoch |-> e, round |-> r,
                        to |-> l]}

\* the select of messageObserveReq: the pacemaker takes ChangeLeader
sendChangeLeader ==
    /\ UNCHANGED <<inbox, outside, managed>>
    /\ pc = "sendChangeLeader"
    /\ ev' = {[t |-> "ChangeLeader"]}
    /\ changeLeaders' = changeLeaders + 1
    /\ net' = {}
    /\ pc' = "idle"
    /\ UNCHANGED <<follower, ctxDone, log, sameEcho>>

\* a send that is not raced against ctx.Done(): the case is never taken
bareSend ==
    /\ FALSE
    /\ UNCHANGED vars

\* the select of messageObserveReq: ctx is done first
skipChangeLeader ==
    /\ UNCHANGED <<inbox, outside, managed>>
    /\ pc = "sendChangeLeader"
    /\ ctxDone
    /\ ev' = {}
    /\ net' = {}
    /\ pc' = "idle"
    /\ UNCHANGED <<follower, ctxDone, log, sameEcho, changeLeaders>>

\* completeRound that does not record the completion
completeRoundUnmarked ==
    /\ UNCHANGED completedRound
    /\ pc' = "sendProgress"

\* completeRound up to its select
completeRound ==
    /\ completedRound' = TRUE
    /\ pc' = "sendProgress"

\* the select of completeRound: the pacemaker takes Progress
sendProgress ==
    /\ UNCHANGED <<inbox, outside, managed>>
    /\ pc = "sendProgress"
    /\ ev' = {[t |-> "Progress"]}
    /\ net' = {}
    /\ pc' = "idle"
    /\ UNCHANGED <<follower, ctxDone, log, sameEcho, changeLeaders>>

\* the select of completeRound: ctx is done first
skipProgress ==
    /\ UNCHANGED <<inbox, outside, managed>>
    /\ pc = "sendProgress"
    /\ ctxDone
    /\ ev' = {}
    /\ net' = {}
    /\ pc' = "idle"
    /\ UNCHANGED <<follower, ctxDone, log, sameEcho, changeLeaders>>

\* reportReqGuards without the sentReport guard
reportReqGuardsAfterReport(msg, sender) ==
    IF e # msg.epoch THEN "wrong epoch"
    ELSE IF sender # l THEN "non-leader"
    ELSE IF r # msg.round THEN "wrong round"
    ELSE IF completedRound THEN "after round completed"
    ELSE IF verifyReportReq(msg.asos) # "ok" THEN verifyReportReq(msg.asos)
    ELSE "pass"

\* reportReqGuards without the "non-leader" guard
reportReqGuardsAnySender(msg, sender) ==
    IF e # msg.epoch THEN "wrong epoch"
    ELSE IF r # msg.round THEN "wrong round"
    ELSE IF sentReport THEN "after report sent"
    ELSE IF completedRound THEN "after round completed"
    ELSE IF verifyReportReq(msg.asos) # "ok" THEN verifyReportReq(msg.asos)
    ELSE "pass"

\* the guards of messageReportReq
reportReqGuards(msg, sender) ==
    IF e # msg.epoch THEN "wrong epoch"
    ELSE IF sender # l THEN "non-leader"
    ELSE IF r # msg.round THEN "wrong round"
    ELSE IF sentReport THEN "after report sent"
    ELSE IF completedRound THEN "after round completed"
    ELSE IF verifyReportReq(msg.asos) # "ok" THEN verifyReportReq(msg.asos)
    ELSE "pass"

\* messageReportReq up to its call of shouldReport: the guards, which only
\* read
messageReportReq(msg, sender) ==
    /\ pc = "idle"
    /\ IF reportReqGuards(msg, sender) # "pass"
       THEN Drop("ReportReq", reportReqGuards(msg, sender))
       ELSE /\ pc' = "shouldReport"
            /\ net' = {}
            /\ ev' = {}
            /\ UNCHANGED <<follower, ctxDone, log, sameEcho, changeLeaders>>

\* messageReportReq from the return of shouldReport to its own return or
\* to the select of completeRound: asos are the observations of the
\* message, ltd is what LatestTransmissionDetails returned, sg what
\* signing does
shouldReportReturns(asos, ltd, sg) ==
    /\ pc = "shouldReport"
    /\ ev' = {}
    /\ UNCHANGED <<r, sentEcho, receivedEcho, ctxDone, sameEcho,
                   changeLeaders>>
    /\ IF shouldReport(asos, ltd)
       THEN /\ pc' = "idle"
            /\ UNCHANGED completedRound
            /\ IF sg = "signErr"
               THEN /\ Logged("ReportReq", "failed to sign report")
                    /\ net' = {}
                    /\ UNCHANGED sentReport
               ELSE IF sg = "badSig"
               THEN /\ Logged("ReportReq",
                              "could not verify my own signature")
                    /\ net' = {}
                    /\ UNCHANGED sentReport
               ELSE /\ sentReport' = TRUE
                    /\ net' = {[t |-> "Report", epoch |-> e,
                                round |-> r, to |-> l]}
                    /\ Logged("ReportReq", "sent report")
       ELSE /\ completeRound
            /\ net' = {}
            /\ Logged("ReportReq", "completed round")
            /\ UNCHANGED sentReport

\* finalGuards without the sentEcho guard
finalGuardsAnyEcho(msg, sender) ==
    IF msg.epoch # e THEN "wrong epoch"
    ELSE IF msg.round # r THEN "wrong round"
    ELSE IF sender # l THEN "non-leader"
    ELSE IF ~verifyAttestedReport(msg.report)
         THEN verifyAttestedReportLog(msg.report)
    ELSE "pass"

\* the guards of messageFinal
finalGuards(msg, sender) ==
    IF msg.epoch # e THEN "wrong epoch"
    ELSE IF msg.round # r THEN "wrong round"
    ELSE IF sender # l THEN "non-leader"
    ELSE IF sentEcho # {} THEN "after already sent MessageFinalEcho"
    ELSE IF ~verifyAttestedReport(msg.report)
         THEN verifyAttestedReportLog(msg.report)
    ELSE "pass"

messageFinal(msg, sender) ==
    /\ pc = "idle"
    /\ IF finalGuards(msg, sender) # "pass"
       THEN Drop("Final", finalGuards(msg, sender))
       ELSE /\ sentEcho' = {msg.report}
            /\ net' = {[t |-> "FinalEcho", epoch |-> msg.epoch,
                        round |-> msg.round, report |-> msg.report]}
            /\ ev' = {}
            /\ Logged("Final", "sent echo")
            /\ UNCHANGED <<r, sentReport, completedRound, receivedEcho,
                           pc, ctxDone, sameEcho, changeLeaders>>

\* quorumReached with <= for <
quorumReachedAtF(re) == F <= EchoCount(re)

\* F < count: more than F echoes have been received
quorumReached(re) == F < EchoCount(re)

\* finalEchoGuards without the completedRound guard
finalEchoGuardsAfterCompletion(msg, sender) ==
    IF msg.epoch # e THEN "wrong epoch"
    ELSE IF msg.round # r THEN "wrong round"
    ELSE IF receivedEcho[sender] THEN "extra MessageFinalEcho received"
    ELSE IF ~verifyAttestedReport(msg.report)
         THEN verifyAttestedReportLog(msg.report)
    ELSE "pass"

\* finalEchoGuards without the receivedEcho[sender] guard
finalEchoGuardsExtraEcho(msg, sender) ==
    IF msg.epoch # e THEN "wrong epoch"
    ELSE IF msg.round # r THEN "wrong round"
    ELSE IF completedRound THEN "after round completion"
    ELSE IF ~verifyAttestedReport(msg.report)
         THEN verifyAttestedReportLog(msg.report)
    ELSE "pass"

\* the guards of messageFinalEcho
finalEchoGuards(msg, sender) ==
    IF msg.epoch # e THEN "wrong epoch"
    ELSE IF msg.round # r THEN "wrong round"
    ELSE IF receivedEcho[sender] THEN "extra MessageFinalEcho received"
    ELSE IF completedRound THEN "after round completion"
    ELSE IF ~verifyAttestedReport(msg.report)
         THEN verifyAttestedReportLog(msg.report)
    ELSE "pass"

messageFinalEcho(msg, sender) ==
    /\ pc = "idle"
    /\ IF finalEchoGuards(msg, sender) # "pass"
       THEN Drop("FinalEcho", finalEchoGuards(msg, sender))
       ELSE /\ receivedEcho' = [receivedEcho EXCEPT ![sender] = TRUE]
            /\ IF sentEcho = {}
               THEN /\ sentEcho' = {msg.report}
                    /\ net' = {[t |-> "FinalEcho", epoch |-> msg.epoch,
                                round |-> msg.round,
                                report |-> msg.report]}
               ELSE /\ sentEcho' = sentEcho
                    /\ net' = {}
            /\ sameEcho' = IF msg.report \in sentEcho'
                           THEN sameEcho \cup {sender} ELSE sameEcho
            /\ UNCHANGED changeLeaders
            /\ ev' = {}
            /\ Logged("FinalEcho", "received echo")
            /\ pc' = IF quorumReached(receivedEcho')
                     THEN "sendTransmit" ELSE "idle"
            /\ UNCHANGED <<r, sentReport, completedRound, ctxDone>>

\* the event messageFinalEcho offers to the transmission channel
EventTransmit ==
    [t |-> "Transmit", epoch |-> e, round |-> r,
     report |-> CHOOSE rep \in sentEcho : TRUE]

\* the select of messageFinalEcho: transmission takes the event; the
\* handler goes on into completeRound
sendTransmit ==
    /\ UNCHANGED <<inbox, outside, managed>>
    /\ pc = "sendTransmit"
    /\ ev' = {EventTransmit}
    /\ net' = {}
    /\ completeRound
    /\ UNCHANGED <<r, sentEcho, sentReport, receivedEcho, ctxDone, log,
                   sameEcho, changeLeaders>>

\* the select of messageFinalEcho: ctx is done first; the handler goes on
\* into completeRound all the same
skipTransmit ==
    /\ UNCHANGED <<inbox, outside, managed>>
    /\ pc = "sendTransmit"
    /\ ctxDone
    /\ ev' = {}
    /\ net' = {}
    /\ completeRound
    /\ UNCHANGED <<r, sentEcho, sentReport, receivedEcho, ctxDone, log,
                   sameEcho, changeLeaders>>

\* repgen.ctx is cancelled (the supervisor tears the instance down)
cancel ==
    /\ UNCHANGED <<inbox, outside, managed>>
    /\ ~ctxDone
    /\ ctxDone' = TRUE
    /\ net' = {}
    /\ ev' = {}
    /\ UNCHANGED <<follower, pc, log, sameEcho, changeLeaders>>

---------------------------------------------------------------------------
(* Inbound messages.  A handler that returns on the message's header never *)
(* reads the payload, so such a message is delivered with one payload; a   *)
(* message whose header passes is delivered with every payload.            *)

\* a signed observation of value v attributed to observer o, signed with
\* key k over context c
Aso(v, o, k, c) == [value |-> v, observer |-> o, key |-> k, ctx |-> c]

\* n observations of value v by the observers 0..n-1, each signed by its
\* observer over the follower's current context
PlainAsos(n, v) ==
    [i \in 1 .. n |-> Aso(v, i - 1, i - 1, followerReportContext)]

\* the ReportReq payloads of Spec: too few and just enough observers, and
\* one observation signed over another round's context
SampleAsos ==
    {PlainAsos(n, 1) : n \in (2 * F) .. (2 * F + 1)}
    \cup {[PlainAsos(2 * F + 1, 1) EXCEPT
              ![1].ctx = [epoch |-> e, round |-> r + 1]]}

LTDs ==
    [err : BOOLEAN, answerInRange : BOOLEAN, digestEq : BOOLEAN,
     epoch : 0 .. 1, round : 0 .. 1, answer : 1 .. MaxVal, stale : BOOLEAN]

\* the transmission details of Spec: the contract answers 1, in range, and
\* has our digest and is at (0, 0) or at (1, 1)
SampleLTDs ==
    {d \in LTDs : /\ d.answerInRange /\ d.answer = 1
                  /\ d.digestEq /\ d.epoch = d.round}

DefaultLTD == CHOOSE d \in SampleLTDs : d.err
DefaultReport == CHOOSE rep \in Reports : TRUE

\* the reports a Final or FinalEcho of round rd carries: signed over that
\* round's context or, replayed, over the round before
ReportsOf(rd) ==
    {rep \in Reports : rep.ctx.round = rd \/ rep.ctx.round + 1 = rd}

\* epoch, round and sender of the inbound messages: for the follower's
\* epoch every round from each of senders, and one message of another epoch
Headers(senders) ==
    {h \in [epoch : Epochs, round : Rounds, sender : senders] :
        h.epoch = e \/ (h.round = 1 /\ h.sender = l)}

\* the senders of the messages only the leader may send: the leader and one
\* other oracle
LeaderOrNot == {l, (l + 1) % N}

\* the drops a handler decides before it looks at the payload
HeaderDrops ==
    {"wrong epoch", "wrong round", "non-leader", "earlier round",
     "out of bounds round", "after report sent", "after round completed",
     "after already sent MessageFinalEcho",
     "extra MessageFinalEcho received", "after round completion"}

receiveObserveReq ==
    /\ UNCHANGED <<inbox, outside, managed>>
    /\ \E h \in Headers(LeaderOrNot) :
           messageObserveReq([epoch |-> h.epoch, round |-> h.round],
                             h.sender)

\* observeValue returns to messageObserveReq: the data source has answered,
\* failed or not answered within DataSourceTimeout
returnFromObserveValue ==
    /\ UNCHANGED <<inbox, outside, managed>>
    /\ \E ds \in DataSourceOutcomes :
       \E sg \in IF ds = "ok" THEN SignOutcomes ELSE {"ok"} :
           observeValueReturns(ds, sg)

\* a ReportReq is delivered; the handler keeps the observations of one
\* that passes the guards
receiveReportReq ==
    /\ UNCHANGED <<outside, managed>>
    /\ \E h \in Headers(LeaderOrNot) :
           LET ep == h.epoch
               rd == h.round
               sender == h.sender
               read == reportReqGuards([epoch |-> ep, round |-> rd,
                                        asos |-> PlainAsos(0, 1)], sender)
                           \notin HeaderDrops
           IN \E asos \in IF read THEN SampleAsos ELSE {PlainAsos(0, 1)} :
                 LET msg == [epoch |-> ep, round |-> rd, asos |-> asos]
                 IN /\ messageReportReq(msg, sender)
                    /\ inbox' = IF reportReqGuards(msg, sender) = "pass"
                                THEN asos ELSE inbox

\* shouldReport returns to messageReportReq: LatestTransmissionDetails has
\* answered or failed; the handler returns and its message is gone
returnFromShouldReport ==
    /\ UNCHANGED <<outside, managed>>
    /\ pc = "shouldReport"
    /\ inbox' = <<>>
    /\ \E ltd \in SampleLTDs :
       \E sg \in IF shouldReport(inbox, ltd) THEN SignOutcomes ELSE {"ok"} :
           shouldReportReturns(inbox, ltd, sg)

receiveFinal ==
    /\ UNCHANGED <<inbox, outside, managed>>
    /\ \E h \in Headers(LeaderOrNot) :
           LET ep == h.epoch
               rd == h.round
               sender == h.sender
               read == finalGuards([epoch |-> ep, round |-> rd,
                                    report |-> DefaultReport], sender)
                           \notin HeaderDrops
           IN \E rep \in IF read THEN ReportsOf(rd) ELSE {DefaultReport} :
                  messageFinal([epoch |-> ep, round |-> rd, report |-> rep],
                               sender)

receiveFinalEcho ==
    /\ UNCHANGED <<inbox, outside, managed>>
    /\ \E h \in Headers(OracleIDs) :
           LET ep == h.epoch
               rd == h.round
               sender == h.sender
               read == finalEchoGuards([epoch |-> ep, round |-> rd,
                                        report |-> DefaultReport], sender)
                           \notin HeaderDrops
           IN \E rep \in IF read THEN ReportsOf(rd) ELSE {DefaultReport} :
                  messageFinalEcho([epoch |-> ep, round |-> rd,
                                    report |-> rep], sender)

---------------------------------------------------------------------------
(* The managed-oracle supervisor.  run() is one task; configChanged and    *)
(* closeOracle are taken a call of an external collaborator at a time, the *)
(* outcome of the call chosen by the collaborator.  The k-th call of       *)
(* configChanged, the endpoint it makes and the RunOracle task it spawns   *)
(* all bear the number k.                                                  *)

\* configChanged calls in one run
MaxConfigs == 3
\* make(chan types.ContractConfig, 5)
ChNewConfigCap == 5

ConfigIDs == 1 .. MaxConfigs
OtherSubprocesses == {"forwardTelemetry", "TrackConfig", "collectGarbage"}
\* what a call of the database does within DatabaseTimeout
DatabaseOutcomes == {"ok", "error", "timeout"}

\* loadConfigFromDatabase returning the stored config on a ReadConfig error
loadConfigFromDatabaseDespiteError(db) == persisted

\* loadConfigFromDatabase: nil ({}) on a ReadConfig error or when nothing
\* is stored, the stored config otherwise
loadConfigFromDatabase(db) == IF db = "error" THEN {} ELSE persisted

\* closeOracle without the teardown
hasOracleNever == FALSE

\* closeOracle, line 128: mo.oracleCancel != nil
hasOracle == oracleCancel # 0

\* Wait() that does not wait
oracleSubprocessesNoWait == TRUE

\* oracleSubprocesses.Wait() returns when every task it spawned has returned
oracleSubprocessesDone == \A k \in ConfigIDs : task[k] # "running"

\* where closeOracle returns to: run's shutdown or configChanged
AfterCloseOracle == IF ret = "shutdown" THEN "otherWait" ELSE "decode"

\* configChanged ending the supervisor instead of returning to run
AfterConfigChangedExits == "exited"

\* where configChanged returns to: run after the restore, or run's loop
AfterConfigChanged == IF ret = "restore" THEN "spawn" ELSE "select"

NoEndpoint == [st |-> "none", telemetry |-> FALSE]

InitManaged ==
    /\ mpc = "restore"
    /\ ret = "none"
    /\ moCtxDone = FALSE
    /\ chNewConfig = 0
    /\ nconf = 0
    /\ moConfig = 0
    /\ chTelemetry = FALSE
    /\ netEndpoint = 0
    /\ oracleCancel = 0
    /\ endpoint = [k \in ConfigIDs |-> NoEndpoint]
    /\ task = [k \in ConfigIDs |-> "none"]
    /\ oracleCtxDone = {}
    /\ otherTasks = {}
    /\ mlog = "none"

\* run, lines 76-92: the config of the database is restored within
\* DatabaseTimeout, and applied by configChanged if there is one
restore ==
    /\ mpc = "restore"
    /\ \E db \in DatabaseOutcomes :
           IF db = "timeout"
           THEN /\ mlog' = "database timed out while attempting to restore"
                /\ mpc' = "spawn"
                /\ UNCHANGED <<ret, nconf>>
           ELSE IF loadConfigFromDatabase(db) = {}
           THEN /\ mlog' = IF db = "error"
                           THEN "Error during Database.ReadConfig"
                           ELSE "no configuration to restore"
                /\ mpc' = "spawn"
                /\ UNCHANGED <<ret, nconf>>
           ELSE /\ mlog' = mlog
                /\ ret' = "restore"
                /\ nconf' = nconf + 1
                /\ mpc' = "closeOracle"
    /\ UNCHANGED <<moCtxDone, chNewConfig, moConfig, chTelemetry,
                  netEndpoint, oracleCancel, endpoint, task, oracleCtxDone,
                  otherTasks, persisted, fvars, inbox,
                  outside>>

\* run, lines 94-107: the telemetry channel is made and the three other
\* subprocesses are spawned
spawnOthers ==
    /\ mpc = "spawn"
    /\ chTelemetry' = TRUE
    /\ otherTasks' = OtherSubprocesses
    /\ mpc' = "select"
    /\ UNCHANGED <<ret, moCtxDone, chNewConfig, nconf, moConfig,
                  netEndpoint, oracleCancel, endpoint, task, oracleCtxDone,
                  persisted, mlog, fvars, inbox,
                  outside>>

\* run, lines 111-116: the select takes a config from chNewConfig and
\* calls configChanged
receiveNewConfig ==
    /\ mpc = "select"
    /\ chNewConfig > 0
    /\ chNewConfig' = chNewConfig - 1
    /\ mlog' = "switching between configs"
    /\ ret' = "change"
    /\ nconf' = nconf + 1
    /\ mpc' = "closeOracle"
    /\ UNCHANGED <<moCtxDone, moConfig, chTelemetry, netEndpoint,
                  oracleCancel, endpoint, task, oracleCtxDone, otherTasks,
                  persisted, fvars, inbox,
                  outside>>

\* run, lines 117-119: the select finds mo.ctx done and calls closeOracle
windDown ==
    /\ mpc = "select"
    /\ moCtxDone
    /\ mlog' = "winding down"
    /\ ret' = "shutdown"
    /\ mpc' = "closeOracle"
    /\ UNCHANGED <<moCtxDone, chNewConfig, nconf, moConfig, chTelemetry,
                  netEndpoint, oracleCancel, endpoint, task, oracleCtxDone,
                  otherTasks, persisted, fvars, inbox,
                  outside>>

\* closeOracle, lines 128-129: with an oracle, its context is cancelled;
\* without, closeOracle returns
closeOracle ==
    /\ mpc = "closeOracle"
    /\ IF hasOracle
       THEN /\ oracleCtxDone' = oracleCtxDone \cup {oracleCancel}
            /\ mpc' = "oracleWait"
       ELSE /\ mpc' = AfterCloseOracle
            /\ UNCHANGED oracleCtxDone
    /\ UNCHANGED <<ret, moCtxDone, chNewConfig, nconf, moConfig,
                  chTelemetry, netEndpoint, oracleCancel, endpoint, task,
                  otherTasks, persisted, mlog, fvars, inbox,
                  outside>>

\* closeOracle, line 130: oracleSubprocesses.Wait() returns
oracleSubprocessesWait ==
    /\ mpc = "oracleWait"
    /\ oracleSubprocessesDone
    /\ mpc' = "endpointClose"
    /\ UNCHANGED <<ret, moCtxDone, chNewConfig, nconf, moConfig,
                  chTelemetry, netEndpoint, oracleCancel, endpoint, task,
                  oracleCtxDone, otherTasks, persisted, mlog, fvars, inbox,
                  outside>>

\* closeOracle, lines 131-137: netEndpoint.Close(), its error logged
netEndpointClose ==
    /\ mpc = "endpointClose"
    /\ endpoint' = [endpoint EXCEPT ![netEndpoint].st = "closed"]
    /\ \E err \in BOOLEAN :
           mlog' = IF err THEN "error while closing BinaryNetworkEndpoint"
                   ELSE mlog
    /\ mpc' = "clearRefs"
    /\ UNCHANGED <<ret, moCtxDone, chNewConfig, nconf, moConfig,
                  chTelemetry, netEndpoint, oracleCancel, task,
                  oracleCtxDone, otherTasks, persisted, fvars, inbox,
                  outside>>

\* closeOracle, lines 138-139: the references are cleared
clearRefs ==
    /\ mpc = "clearRefs"
    /\ oracleCancel' = 0
    /\ netEndpoint' = 0
    /\ mpc' = AfterCloseOracle
    /\ UNCHANGED <<ret, moCtxDone, chNewConfig, nconf, moConfig,
                  chTelemetry, endpoint, task, oracleCtxDone, otherTasks,
                  persisted, mlog, fvars, inbox,
                  outside>>

\* configChanged, lines 150-161: SharedConfigFromContractConfig assigns
\* mo.config, the zero value on error
decode ==
    /\ mpc = "decode"
    /\ \E ok \in BOOLEAN :
           IF ok
           THEN /\ moConfig' = nconf
                /\ mlog' = mlog
                /\ mpc' = "makeEndpoint"
           ELSE /\ moConfig' = 0
                /\ mlog' = "error while updating config"
                /\ mpc' = AfterConfigChanged
    /\ UNCHANGED <<ret, moCtxDone, chNewConfig, nconf, chTelemetry,
                  netEndpoint, oracleCancel, endpoint, task, oracleCtxDone,
                  otherTasks, persisted, fvars, inbox,
                  outside>>

\* configChanged, lines 174-192: MakeEndpoint, and the serializing
\* endpoint around it that is given mo.chTelemetry
makeEndpoint ==
    /\ mpc = "makeEndpoint"
    /\ \E ok \in BOOLEAN :
           IF ok
           THEN /\ endpoint' = [endpoint EXCEPT
                                   ![nconf] = [st |-> "made",
                                               telemetry |-> chTelemetry]]
                /\ mlog' = mlog
                /\ mpc' = "start"
           ELSE /\ endpoint' = endpoint
                /\ mlog' = "error during MakeEndpoint"
                /\ mpc' = AfterConfigChanged
    /\ UNCHANGED <<ret, moCtxDone, chNewConfig, nconf, moConfig,
                  chTelemetry, netEndpoint, oracleCancel, task,
                  oracleCtxDone, otherTasks, persisted, fvars, inbox,
                  outside>>

\* start without the return after a failed netEndpoint.Start()
startWithoutReturn ==
    /\ mpc = "start"
    /\ \E ok \in BOOLEAN :
           IF ok
           THEN /\ endpoint' = [endpoint EXCEPT ![nconf].st = "started"]
                /\ netEndpoint' = nconf
                /\ oracleCancel' = nconf
                /\ mlog' = mlog
                /\ mpc' = "runOracle"
           ELSE /\ endpoint' = [endpoint EXCEPT ![nconf].st = "startFailed"]
                /\ mlog' = "error during netEndpoint.Start()"
                /\ mpc' = "writeConfig"
                /\ UNCHANGED <<netEndpoint, oracleCancel>>
    /\ UNCHANGED <<ret, moCtxDone, chNewConfig, nconf, moConfig,
                  chTelemetry, task, oracleCtxDone, otherTasks, persisted,
                  fvars, inbox,
                  outside>>

\* configChanged, lines 194-204: netEndpoint.Start(); on success the
\* endpoint and the cancel function of a new oracleCtx are stored
start ==
    /\ mpc = "start"
    /\ \E ok \in BOOLEAN :
           IF ok
           THEN /\ endpoint' = [endpoint EXCEPT ![nconf].st = "started"]
                /\ netEndpoint' = nconf
                /\ oracleCancel' = nconf
                /\ mlog' = mlog
                /\ mpc' = "runOracle"
           ELSE /\ endpoint' = [endpoint EXCEPT ![nconf].st = "startFailed"]
                /\ mlog' = "error during netEndpoint.Start()"
                /\ mpc' = AfterConfigChanged
                /\ UNCHANGED <<netEndpoint, oracleCancel>>
    /\ UNCHANGED <<ret, moCtxDone, chNewConfig, nconf, moConfig,
                  chTelemetry, task, oracleCtxDone, otherTasks, persisted,
                  fvars, inbox,
                  outside>>

\* configChanged, lines 205-220: oracleSubprocesses.Go(RunOracle)
goRunOracle ==
    /\ mpc = "runOracle"
    /\ task' = [task EXCEPT ![nconf] = "running"]
    /\ mpc' = "writeConfig"
    /\ UNCHANGED <<ret, moCtxDone, chNewConfig, nconf, moConfig,
                  chTelemetry, netEndpoint, oracleCancel, endpoint,
                  oracleCtxDone, otherTasks, persisted, mlog, fvars, inbox,
                  outside>>

\* what database.WriteConfig, called directly on a context with a
\* timeout, does: as a call of the database within the timeout, or it
\* ignores the context and never returns
WriteConfigOutcomes == DatabaseOutcomes \cup {"never"}

\* configChanged, lines 222-230: WriteConfig on a context that is done
\* after DatabaseTimeout, its error logged; configChanged returns when
\* WriteConfig does
writeConfig ==
    /\ mpc = "writeConfig"
    /\ \E db \in WriteConfigOutcomes :
           IF db = "ok"
           THEN persisted' = {nconf} /\ mlog' = mlog
                /\ mpc' = AfterConfigChanged
           ELSE IF db = "never"
           THEN persisted' = persisted /\ mlog' = mlog
                /\ mpc' = "inWriteConfig"
           ELSE /\ persisted' = persisted
                /\ mlog' = "error writing new config to database"
                /\ mpc' = AfterConfigChanged
    /\ UNCHANGED <<ret, moCtxDone, chNewConfig, nconf, moConfig,
                  chTelemetry, netEndpoint, oracleCancel, endpoint, task,
                  oracleCtxDone, otherTasks, fvars, inbox,
                  outside>>

\* run, lines 120-122: otherSubprocesses.Wait() returns and run returns
otherSubprocessesWait ==
    /\ mpc = "otherWait"
    /\ otherTasks = {}
    /\ mlog' = "exiting"
    /\ mpc' = "exited"
    /\ UNCHANGED <<ret, moCtxDone, chNewConfig, nconf, moConfig,
                  chTelemetry, netEndpoint, oracleCancel, endpoint, task,
                  oracleCtxDone, otherTasks, persisted, fvars, inbox,
                  outside>>

\* the RunOracle task of call k returns once its oracleCtx is done, by
\* oracleCancel or by mo.ctx; its deferred oracleCancel() runs
runOracleReturns(k) ==
    /\ task[k] = "running"
    /\ k \in oracleCtxDone \/ moCtxDone
    /\ task' = [task EXCEPT ![k] = "exited"]
    /\ oracleCtxDone' = oracleCtxDone \cup {k}
    /\ UNCHANGED <<mpc, ret, moCtxDone, chNewConfig, nconf, moConfig,
                  chTelemetry, netEndpoint, oracleCancel, endpoint,
                  otherTasks, persisted, mlog, fvars, inbox,
                  outside>>

\* forwardTelemetry, TrackConfig or collectGarbage returns once mo.ctx is
\* done
otherReturns(t) ==
    /\ t \in otherTasks
    /\ moCtxDone
    /\ otherTasks' = otherTasks \ {t}
    /\ UNCHANGED <<mpc, ret, moCtxDone, chNewConfig, nconf, moConfig,
                  chTelemetry, netEndpoint, oracleCancel, endpoint, task,
                  oracleCtxDone, persisted, mlog, fvars, inbox,
                  outside>>

\* TrackConfig puts a new config on chNewConfig
trackConfig ==
    /\ "TrackConfig" \in otherTasks
    /\ chNewConfig < ChNewConfigCap
    /\ nconf + chNewConfig < MaxConfigs
    /\ chNewConfig' = chNewConfig + 1
    /\ UNCHANGED <<mpc, ret, moCtxDone, nconf, moConfig, chTelemetry,
                  netEndpoint, oracleCancel, endpoint, task, oracleCtxDone,
                  otherTasks, persisted, mlog, fvars, inbox,
                  outside>>

\* the caller of RunManagedOracle cancels ctx
moCancel ==
    /\ ~moCtxDone
    /\ moCtxDone' = TRUE
    /\ UNCHANGED <<mpc, ret, chNewConfig, nconf, moConfig, chTelemetry,
                  netEndpoint, oracleCancel, endpoint, task, oracleCtxDone,
                  otherTasks, persisted, mlog, fvars, inbox,
                  outside>>

NextManaged ==
    \/ restore
    \/ spawnOthers
    \/ receiveNewConfig
    \/ windDown
    \/ closeOracle
    \/ oracleSubprocessesWait
    \/ netEndpointClose
    \/ clearRefs
    \/ decode
    \/ makeEndpoint
    \/ start
    \/ goRunOracle
    \/ writeConfig
    \/ otherSubprocessesWait
    \/ \E k \in ConfigIDs : runOracleReturns(k)
    \/ \E t \in OtherSubprocesses : otherReturns(t)
    \/ trackConfig
    \/ moCancel

---------------------------------------------------------------------------
(* Spec: the follower.                                                     *)

InitFollower ==
    /\ r = 0
    /\ sentEcho = {}
    /\ sentReport = FALSE
    /\ completedRound = FALSE
    /\ receivedEcho = NoEcho
    /\ pc = "idle"
    /\ ctxDone = FALSE
    /\ log = [h |-> "none", m |-> "none"]
    /\ net = {}
    /\ ev = {}
    /\ sameEcho = {}
    /\ changeLeaders = 0

\* a follower that starts its epoch; the supervisor stands at its start
\* with an empty database and no ReportReq is in flight
\* the calls of the core to its external collaborators
ExternalCalls ==
    {"Observe", "LatestTransmissionDetails", "ReadConfig", "WriteConfig"}

\* the calls made inside subprocesses.BlockForAtMost; the other two are
\* made directly, on a context with a timeout
Detached == {"Observe", "ReadConfig"}

\* what a collaborator does with a call: it returns by itself, it returns
\* once the context of the call is done, or it never returns
Collaborators == {"returns", "honoursCtx", "never"}

\* the goroutines that call Start and Close on the node
MaxCallers == 3
Callers == 1 .. MaxCallers

\* a caller that is in neither Start nor Close; afterStart records, for the
\* Close in progress, that a Start had returned when it was called
NotCalling == [pc |-> "idle", afterStart |-> FALSE]

\* NewBootstrapNode: started is semaphore.NewWeighted(1), the other fields
\* have their zero values
NewBootstrapNode ==
    /\ started = FALSE
    /\ bCancel = FALSE
    /\ bCtxDone = FALSE
    /\ subprocesses = 0
    /\ bootstrapTask = "none"
    /\ callers = [c \in Callers |-> NotCalling]

\* a call not made yet, to a collaborator that behaves as b
NotCalled(b) ==
    [core |-> "before", ctx |-> "live", collab |-> b, outcome |-> "none"]

\* no external call has been made and no BootstrapNode method called
NoCall ==
    /\ details = DefaultLTD
    /\ result = "none"
    /\ calls = [c \in ExternalCalls |-> NotCalled("returns")]
    /\ NewBootstrapNode

Init ==
    /\ InitFollower
    /\ inbox = <<>>
    /\ NoCall
    /\ InitManaged
    /\ persisted = {}

Next ==
    \/ receiveObserveReq
    \/ returnFromObserveValue
    \/ receiveReportReq
    \/ returnFromShouldReport
    \/ receiveFinal
    \/ receiveFinalEcho
    \/ sendChangeLeader
    \/ skipChangeLeader
    \/ sendTransmit
    \/ skipTransmit
    \/ sendProgress
    \/ skipProgress
    \/ cancel

Spec == Init /\ [][Next]_vars

\* the selects of the follower's task are scheduled: a select whose
\* ctx.Done() case is ready does not wait for ever.  Nothing is assumed of
\* the receivers of the two outbound channels.
FairSelects ==
    /\ WF_vars(skipChangeLeader)
    /\ WF_vars(skipTransmit)
    /\ WF_vars(skipProgress)

SpecCancel == Init /\ [][Next]_vars /\ FairSelects

---------------------------------------------------------------------------
(* SpecReportReq: the follower has entered round 1 by an ObserveReq and    *)
(* sent its observation; the leader's ReportReq of that round arrives,     *)
(* with any observation list of the alphabet below.                        *)

\* how an observation may be signed: by its observer over the round's
\* context, by another oracle's key, or over another round's context
Signed(v, o) ==
    {Aso(v, o, o, followerReportContext),
     Aso(v, o, (o + 1) % N, followerReportContext),
     Aso(v, o, o, [epoch |-> e, round |-> r + 1])}

AsoAlphabet ==
    UNION {Signed(v, o) : v \in 1 .. MaxVal, o \in AnyOracleIDs}

\* observation lists of 2F and of 2F+1 entries over the alphabet, and the
\* lists of all N oracles
ReportReqPayloads ==
    UNION {[1 .. n -> AsoAlphabet] : n \in (2 * F) .. (2 * F + 1)}
    \cup {PlainAsos(N, v) : v \in 1 .. MaxVal}

InitReportReq ==
    /\ r = 1
    /\ sentEcho = {}
    /\ sentReport = FALSE
    /\ completedRound = FALSE
    /\ receivedEcho = NoEcho
    /\ pc = "idle"
    /\ ctxDone = FALSE
    /\ log = [h |-> "ObserveReq", m |-> "sent observation"]
    /\ net = {[t |-> "Observe", epoch |-> e, round |-> 1, to |-> l]}
    /\ ev = {}
    /\ sameEcho = {}
    /\ changeLeaders = 0
    /\ inbox \in ReportReqPayloads
    /\ NoCall
    /\ InitManaged
    /\ persisted = {}

\* the ReportReq in flight, of the follower's epoch and round
InFlight == [epoch |-> e, round |-> r, asos |-> inbox]

\* the ReportReq in flight is delivered, from the leader
handleReportReq ==
    /\ UNCHANGED <<inbox, outside, managed>>
    /\ messageReportReq(InFlight, l)

\* shouldReport returns to the handler of the ReportReq in flight, with
\* any answer of the contract and of the key provider
answerReportReq ==
    /\ UNCHANGED <<inbox, outside, managed>>
    /\ pc = "shouldReport"
    /\ \E ltd \in SampleLTDs :
       \E sg \in IF shouldReport(inbox, ltd) THEN SignOutcomes ELSE {"ok"} :
           shouldReportReturns(inbox, ltd, sg)

NextReportReq ==
    \/ handleReportReq
    \/ answerReportReq
    \/ sendProgress
    \/ skipProgress
    \/ cancel

SpecReportReq == InitReportReq /\ [][NextReportReq]_vars

---------------------------------------------------------------------------
(* SpecManaged: the supervisor from the call of run, over a database that  *)
(* is empty or holds the config of an earlier run (config 0).              *)

\* the observation lists of shouldReport: 2F+1 and N observations in
\* ascending order of value, each signed by its observer over the round
AscendingAsos ==
    {asos \in UNION {[1 .. n -> 1 .. MaxVal] : n \in {2 * F + 1, N}} :
        \A i \in 1 .. (Len(asos) - 1) : asos[i] <= asos[i + 1]}

SortedAsos ==
    {[i \in 1 .. Len(vs) |->
         Aso(vs[i], i - 1, i - 1, [epoch |-> e, round |-> 1])] :
     vs \in AscendingAsos}

\* a follower in round 1 that has sent its observation; a ReportReq that
\* passes the guards is in flight, and the contract holds any details
InitShouldReport ==
    /\ r = 1
    /\ sentEcho = {}
    /\ sentReport = FALSE
    /\ completedRound = FALSE
    /\ receivedEcho = NoEcho
    /\ pc = "idle"
    /\ ctxDone = FALSE
    /\ log = [h |-> "ObserveReq", m |-> "sent observation"]
    /\ net = {[t |-> "Observe", epoch |-> e, round |-> 1, to |-> l]}
    /\ ev = {}
    /\ sameEcho = {}
    /\ changeLeaders = 0
    /\ inbox \in SortedAsos
    /\ details \in LTDs
    /\ result = "none"
    /\ calls = [c \in ExternalCalls |-> NotCalled("returns")]
    /\ NewBootstrapNode
    /\ InitManaged
    /\ persisted = {}

\* the ReportReq in flight is delivered and passes the guards: the handler
\* calls shouldReport
callShouldReport ==
    /\ UNCHANGED <<inbox, outside, managed>>
    /\ result = "none"
    /\ reportReqGuards(InFlight, l) = "pass"
    /\ messageReportReq(InFlight, l)

\* shouldReport returns on the contract's details; result records what it
\* returned
decideReport ==
    /\ UNCHANGED <<inbox, details, calls, bootstrap, managed>>
    /\ \E sg \in SignOutcomes : shouldReportReturns(inbox, details, sg)
    /\ result' = IF shouldReport(inbox, details) THEN "true" ELSE "false"

NextShouldReport ==
    \/ callShouldReport
    \/ decideReport
    \/ sendProgress
    \/ skipProgress
    \/ cancel

SpecShouldReport == InitShouldReport /\ [][NextShouldReport]_vars

\* the core about to make its external calls, each to a collaborator of any
\* behaviour
InitCalls ==
    /\ InitFollower
    /\ inbox = <<>>
    /\ details = DefaultLTD
    /\ result = "none"
    /\ calls \in [ExternalCalls -> {NotCalled(b) : b \in Collaborators}]
    /\ NewBootstrapNode
    /\ InitManaged
    /\ persisted = {}

\* the call that precedes c in its task: run restores the configuration
\* before any configChanged writes one
CalledBefore(c) ==
    IF c = "WriteConfig" THEN {"ReadConfig"} ELSE {}

\* the other call of the task that makes c: the follower's task calls
\* Observe from messageObserveReq and LatestTransmissionDetails from
\* messageReportReq, in either order, and is inside one handler at a time
SameTask(c) ==
    IF c = "Observe" THEN {"LatestTransmissionDetails"}
    ELSE IF c = "LatestTransmissionDetails" THEN {"Observe"}
    ELSE {}

\* the core makes call c, on a context that is done when the timeout of
\* the call elapses
makeCall(c) ==
    /\ calls[c].core = "before"
    /\ \A b \in CalledBefore(c) : calls[b].core = "proceeded"
    /\ \A b \in SameTask(c) : calls[b].core # "waiting"
    /\ calls' = [calls EXCEPT ![c].core = "waiting"]
    /\ UNCHANGED <<fvars, inbox, details, result, bootstrap, managed>>

\* the timeout of call c elapses while the core waits
timeoutElapses(c) ==
    /\ calls[c].core = "waiting"
    /\ calls[c].ctx = "live"
    /\ calls' = [calls EXCEPT ![c].ctx = "done"]
    /\ UNCHANGED <<fvars, inbox, details, result, bootstrap, managed>>

\* the collaborator of call c returns while the core waits: by itself, or
\* with an error because the context is done
collaboratorReturns(c) ==
    /\ calls[c].core = "waiting"
    /\ \/ calls[c].collab = "returns"
       \/ calls[c].collab = "honoursCtx" /\ calls[c].ctx = "done"
    /\ \E out \in IF calls[c].collab = "returns"
                  THEN {"value", "error"} ELSE {"error"} :
           calls' = [calls EXCEPT ![c].core = "proceeded",
                                  ![c].outcome = out]
    /\ UNCHANGED <<fvars, inbox, details, result, bootstrap, managed>>

\* BlockForAtMost returns false: the timeout has elapsed before the
\* function it runs returned; the core goes on without a value
blockForAtMostExpires(c) ==
    /\ c \in Detached
    /\ calls[c].core = "waiting"
    /\ calls[c].ctx = "done"
    /\ calls' = [calls EXCEPT ![c].core = "proceeded",
                              ![c].outcome = "timedOut"]
    /\ UNCHANGED <<fvars, inbox, details, result, bootstrap, managed>>

NextCalls ==
    \/ \E c \in ExternalCalls : makeCall(c)
    \/ \E c \in ExternalCalls : timeoutElapses(c)
    \/ \E c \in ExternalCalls : collaboratorReturns(c)
    \/ \E c \in ExternalCalls : blockForAtMostExpires(c)

\* the core's tasks are scheduled, timers fire, and a collaborator that
\* returns does return
FairCalls ==
    \A c \in ExternalCalls :
        /\ WF_vars(makeCall(c))
        /\ WF_vars(timeoutElapses(c))
        /\ WF_vars(collaboratorReturns(c))
        /\ WF_vars(blockForAtMostExpires(c))

SpecCalls == InitCalls /\ [][NextCalls]_vars /\ FairCalls

InitSupervisor ==
    /\ InitFollower
    /\ inbox = <<>>
    /\ NoCall
    /\ InitManaged
    /\ persisted \in {{}, {0}}

SpecManaged == InitSupervisor /\ [][NextManaged]_vars

\* a step of the task that runs managedOracleState.run
runStep ==
    \/ restore
    \/ spawnOthers
    \/ receiveNewConfig
    \/ windDown
    \/ closeOracle
    \/ oracleSubprocessesWait
    \/ netEndpointClose
    \/ clearRefs
    \/ decode
    \/ makeEndpoint
    \/ start
    \/ goRunOracle
    \/ writeConfig
    \/ otherSubprocessesWait

\* the task of run is scheduled, and the spawned tasks honour the
\* cancellation of their contexts; nothing is assumed of the config tracker
\* finding configs or of the caller cancelling
FairManaged ==
    /\ WF_vars(runStep)
    /\ \A k \in ConfigIDs : WF_vars(runOracleReturns(k))
    /\ \A t \in OtherSubprocesses : WF_vars(otherReturns(t))

SpecShutdown == InitSupervisor /\ [][NextManaged]_vars /\ FairManaged

---------------------------------------------------------------------------
(* Claims about the follower, checked under Spec.                          *)

ObserveReqMsgs == [epoch : Epochs, round : Rounds]

\* C1  Round monotonicity: r never decreases; in every state the guards of
\* messageObserveReq pass only a message of epoch e from the leader with
\* r < msg.Round <= RMax+1; and a step changes r only as messageObserveReq
\* handling such a message, whose Round is the new r.
C1_RoundMonotonicity ==
    /\ [](\A m \in ObserveReqMsgs, s \in OracleIDs :
             observeReqGuards(m, s) = "pass" =>
                 /\ s = l
                 /\ m.epoch = e
                 /\ r < m.round
                 /\ m.round <= RMax + 1)
    /\ [][ /\ r <= r'
           /\ r' # r =>
                 /\ r' <= RMax + 1
                 /\ messageObserveReq([epoch |-> e, round |-> r'], l) ]_vars

\* the follower has advanced from round 1 to round 2 and answered
C1_Witness ==
    /\ r = 2
    /\ log = [h |-> "ObserveReq", m |-> "sent observation"]
    /\ net = {[t |-> "Observe", epoch |-> e, round |-> 2, to |-> l]}

\* the Transmit events of a state's ev
Transmits(events) == {x \in events : x.t = "Transmit"}

\* the number of senders whose echo is recorded in re
Echoes(re) == Cardinality({j \in OracleIDs : re[j]})

\* C2 (as stated)  Transmission quorum: a step emits Transmit only when
\* more than F echoes are recorded, sentEcho is set and completedRound is
\* false; a step that brings the echoes above F in a round not yet completed
\* takes the handler to the send, and the handler never leaves the send
\* without the Transmit being emitted.
C2_Original ==
    [][ /\ Transmits(ev') # {} =>
              /\ F < Echoes(receivedEcho)
              /\ sentEcho # {}
              /\ ~completedRound
        /\ ( /\ receivedEcho' # receivedEcho
             /\ F < Echoes(receivedEcho')
             /\ ~completedRound ) => pc' = "sendTransmit"
        /\ (pc = "sendTransmit" /\ pc' # "sendTransmit") =>
              Transmits(ev') # {} ]_vars

\* C2 (amended)  As C2, but the handler may leave the send without a
\* Transmit when the follower's context has been cancelled; the round is
\* completed all the same.
C2_TransmissionQuorum ==
    [][ /\ Transmits(ev') # {} =>
              /\ F < Echoes(receivedEcho)
              /\ sentEcho # {}
              /\ ~completedRound
        /\ ( /\ receivedEcho' # receivedEcho
             /\ F < Echoes(receivedEcho')
             /\ ~completedRound ) => pc' = "sendTransmit"
        /\ (pc = "sendTransmit" /\ pc' # "sendTransmit") =>
              /\ Transmits(ev') # {} \/ ctxDone
              /\ completedRound' ]_vars

\* a Transmit has just been emitted on F+1 echoes
C2_Witness ==
    /\ Transmits(ev) # {}
    /\ Echoes(receivedEcho) = F + 1
    /\ completedRound
    /\ pc = "sendProgress"

\* report carries more than F signatures over ctx, each by a committee
\* member, no member twice
ValidAttestation(report, ctx) ==
    /\ Len(report.sigs) > F
    /\ report.ctx = ctx
    /\ \A i \in 1 .. Len(report.sigs) : report.sigs[i] \in 0 .. (N - 1)
    /\ \A i, j \in 1 .. Len(report.sigs) :
          i # j => report.sigs[i] # report.sigs[j]

\* C3  Report validity: every Transmit(e, r, report) carries a report with
\* more than F valid signatures by distinct committee members over the
\* context (e, r) of the event.
C3_ReportValidity ==
    \A x \in Transmits(ev) :
        ValidAttestation(x.report, [epoch |-> x.epoch, round |-> x.round])

\* C4  Echo agreement: the report of every Transmit was carried by the
\* accepted FinalEchos of more than F distinct senders.
C4_EchoAgreement ==
    \A x \in Transmits(ev) :
        /\ x.report \in sentEcho
        /\ Cardinality(sameEcho) > F

\* a step that is a drop: follower state and position kept, nothing sent,
\* nothing emitted
Dropped ==
    /\ UNCHANGED <<r, sentEcho, sentReport, completedRound, receivedEcho>>
    /\ pc' = pc
    /\ net' = {}
    /\ ev' = {}

\* a Final or FinalEcho of the follower's epoch and round carrying rep
ThisRound(rep) == [epoch |-> e, round |-> r, report |-> rep]

\* C6  Round idempotence: in every state with completedRound set the
\* guards of messageReportReq and of messageFinalEcho pass no message of
\* the follower's epoch and round, and every step that one of the two
\* handlers takes is a drop: FollowerState and the task's position are
\* unchanged, nothing is sent and no event is emitted.
C6_RoundIdempotence ==
    /\ [](completedRound =>
             \A s \in OracleIDs :
                 /\ \A rep \in ReportsOf(r) :
                       finalEchoGuards(ThisRound(rep), s) # "pass"
                 /\ \A asos \in SampleAsos :
                       reportReqGuards([epoch |-> e, round |-> r,
                                        asos |-> asos], s) # "pass")
    /\ [][ (/\ completedRound
            /\ pc = "idle"
            /\ r' = r
            /\ log'.h \in {"ReportReq", "FinalEcho"}) => Dropped ]_vars

\* after a Transmit and its Progress, a further FinalEcho of the round was
\* dropped
C6_Witness ==
    /\ completedRound
    /\ pc = "idle"
    /\ Echoes(receivedEcho) = F + 1
    /\ log = [h |-> "FinalEcho", m |-> "after round completion"]

\* C7  Single echo: within a round a set sentEcho is never replaced or
\* cleared; the follower broadcasts a FinalEcho in exactly the steps that
\* take sentEcho from empty to set, the step being the handling of a Final
\* from the leader or of a FinalEcho, and the report valid for (e, r).
C7_SingleEcho ==
    [][ /\ (sentEcho # {} /\ r' = r) => sentEcho' = sentEcho
        /\ (\E x \in net' : x.t = "FinalEcho") <=>
              (sentEcho = {} /\ sentEcho' # {})
        /\ (sentEcho = {} /\ sentEcho' # {}) =>
              \E rep \in Reports :
                  /\ sentEcho' = {rep}
                  /\ net' = {[t |-> "FinalEcho", epoch |-> e, round |-> r,
                              report |-> rep]}
                  /\ ValidAttestation(rep, [epoch |-> e, round |-> r])
                  /\ \/ messageFinal(ThisRound(rep), l)
                     \/ \E s \in OracleIDs :
                           messageFinalEcho(ThisRound(rep), s) ]_vars

\* sentEcho is set and a later Final of the leader for the round was dropped
C7_Witness ==
    /\ sentEcho # {}
    /\ r = 1
    /\ log = [h |-> "Final", m |-> "after already sent MessageFinalEcho"]

\* C8  Unique echoes: in every state the guards of messageFinalEcho answer
\* a FinalEcho of the round from a sender whose entry is true with the
\* warning, and pass only a FinalEcho whose report is valid for (e, r) and
\* whose sender's entry is false; within a round receivedEcho[j] never goes
\* back to false; it goes from false to true only in a step of
\* messageFinalEcho for a FinalEcho of the round from j, which changes no
\* other entry; and a step of messageFinalEcho for a FinalEcho of the
\* round from a sender whose entry is true logs the warning and is a drop
\* that leaves the number of echoes unchanged (the drop is decided before
\* the report is read, so one report stands for all).
C8_UniqueEchoes ==
    /\ [](\A j \in OracleIDs, rep \in ReportsOf(r) :
             /\ receivedEcho[j] =>
                   finalEchoGuards(ThisRound(rep), j)
                       = "extra MessageFinalEcho received"
             /\ finalEchoGuards(ThisRound(rep), j) = "pass" =>
                   /\ ~receivedEcho[j]
                   /\ ValidAttestation(rep, [epoch |-> e, round |-> r]))
    /\ [][ /\ \A j \in OracleIDs :
                 (receivedEcho[j] /\ r' = r) => receivedEcho'[j]
           /\ \A j \in OracleIDs :
                 (~receivedEcho[j] /\ receivedEcho'[j]) =>
                     /\ \E rep \in ReportsOf(r) :
                           messageFinalEcho(ThisRound(rep), j)
                     /\ \A k \in OracleIDs \ {j} :
                           receivedEcho'[k] = receivedEcho[k]
           /\ (/\ pc = "idle"
               /\ receivedEcho # NoEcho
               /\ ~(/\ log'.m = "extra MessageFinalEcho received"
                    /\ Dropped
                    /\ Echoes(receivedEcho') = Echoes(receivedEcho))) =>
                 \A j \in OracleIDs : receivedEcho[j] =>
                    ~messageFinalEcho(ThisRound(DefaultReport), j) ]_vars

\* one echo is recorded and a second FinalEcho of its sender was dropped
C8_Witness ==
    /\ Echoes(receivedEcho) = 1
    /\ ~completedRound
    /\ r = 1
    /\ log = [h |-> "FinalEcho", m |-> "extra MessageFinalEcho received"]

---------------------------------------------------------------------------
(* Claims about verifyReportReq, checked under SpecReportReq.              *)

\* the observers an observation list names
Observers(asos) == {asos[i].observer : i \in 1 .. Len(asos)}

\* at least 2F+1 observations, ascending by value, of pairwise distinct
\* oracles of the committee, each signed by its observer's key over
\* (ConfigDigest, e, r)
ObservationQuorum(asos) ==
    /\ Len(asos) >= 2 * F + 1
    /\ \A i, j \in 1 .. Len(asos) : i < j => asos[i].value <= asos[j].value
    /\ \A i \in 1 .. Len(asos) : asos[i].observer \in OracleIDs
    /\ \A i, j \in 1 .. Len(asos) :
          i # j => asos[i].observer # asos[j].observer
    /\ \A i \in 1 .. Len(asos) :
          /\ asos[i].key = asos[i].observer
          /\ asos[i].ctx = [epoch |-> e, round |-> r]

\* the step sends a MessageReport or goes into completeRound
ReportReqAccepted ==
    \/ \E x \in net' : x.t = "Report"
    \/ ~completedRound /\ completedRound'

\* C5  Observation quorum: a step of messageReportReq that sends a
\* MessageReport or completes the round handles an observation list that is
\* an observation quorum, and so does the handler while it waits in
\* shouldReport; a step of it that handles a list naming exactly 2F
\* distinct observers is a drop, and sentReport stays false (stated as:
\* a step that accepts without a quorum, or that is not such a drop of a
\* list of 2F observers, is not a step of messageReportReq).
C5_ObservationQuorum ==
    /\ [](pc = "shouldReport" => ObservationQuorum(inbox))
    /\ [][ /\ (ReportReqAccepted /\ ~ObservationQuorum(inbox)) =>
                 \A ltd \in SampleLTDs, sg \in SignOutcomes :
                     ~shouldReportReturns(inbox, ltd, sg)
           /\ (pc' = "shouldReport" /\ ~ObservationQuorum(inbox)) =>
                 ~messageReportReq(InFlight, l)
           /\ (/\ Cardinality(Observers(inbox)) = 2 * F
               /\ ~(Dropped /\ ~sentReport' /\ log'.h = "ReportReq")) =>
                 ~messageReportReq(InFlight, l)
         ]_vars

\* a list of 2F+1 observations of two values was accepted and the report
\* sent to the leader
C5_Witness ==
    /\ Len(inbox) = 2 * F + 1
    /\ inbox[1].value < inbox[2 * F + 1].value
    /\ sentReport
    /\ log = [h |-> "ReportReq", m |-> "sent report"]
    /\ \E x \in net : x.t = "Report"

---------------------------------------------------------------------------
(* Claims about the supervisor, checked under SpecManaged.                 *)

\* the endpoints that are started and not closed
Live == {k \in ConfigIDs : endpoint[k].st = "started"}

\* C9  Endpoint uniqueness: at most one endpoint is started and not closed.
C9_EndpointUniqueness == Cardinality(Live) <= 1

\* after a restored config whose endpoint has been closed and a config
\* change that failed at Start, a third endpoint is live
C9_Witness ==
    /\ endpoint[1].st = "closed"
    /\ endpoint[2].st = "startFailed"
    /\ endpoint[3].st = "started"
    /\ persisted = {0}

\* C10  Teardown ordering: the supervisor leaves its select only into
\* closeOracle; it waits for the protocol task only with the oracle context
\* cancelled; it closes an endpoint only when that endpoint is the stored
\* one, its context is cancelled and its task has exited; it clears its
\* references only when the endpoint is closed; it goes on to decode a
\* config or to its exit only with no reference, no live endpoint and no
\* running task; and it starts a protocol task only when no other task
\* runs and no earlier endpoint is live.
C10_TeardownOrdering ==
    [][ /\ (mpc = "select" /\ mpc' # "select") => mpc' = "closeOracle"
        /\ (mpc # "oracleWait" /\ mpc' = "oracleWait") =>
              oracleCancel # 0 /\ oracleCancel \in oracleCtxDone'
        /\ \A k \in ConfigIDs :
              (endpoint[k].st = "started" /\ endpoint'[k].st # "started") =>
                  /\ endpoint'[k].st = "closed"
                  /\ k = netEndpoint
                  /\ k \in oracleCtxDone
                  /\ task[k] = "exited"
        /\ (oracleCancel # 0 /\ oracleCancel' # oracleCancel) =>
              /\ oracleCancel' = 0
              /\ netEndpoint' = 0
              /\ netEndpoint = oracleCancel
              /\ endpoint[netEndpoint].st = "closed"
              /\ task[oracleCancel] = "exited"
        /\ (mpc' # mpc /\ mpc' \in {"decode", "otherWait"}) =>
              /\ oracleCancel' = 0
              /\ netEndpoint' = 0
              /\ Live = {}
              /\ \A k \in ConfigIDs : task[k] # "running"
        /\ \A k \in ConfigIDs :
              (task[k] # "running" /\ task'[k] = "running") =>
                  /\ endpoint[k].st = "started"
                  /\ netEndpoint = k
                  /\ \A j \in ConfigIDs \ {k} :
                        /\ task[j] # "running"
                        /\ endpoint[j].st # "started"
      ]_vars

\* a second protocol task runs after the first one was torn down
C10_Witness ==
    /\ task[1] = "exited"
    /\ endpoint[1].st = "closed"
    /\ task[2] = "running"
    /\ endpoint[2].st = "started"
    /\ oracleCancel = 2

\* C11  No endpoint leak: when the supervisor holds an endpoint made by
\* MakeEndpoint, every endpoint made before it has been closed; and when
\* run has returned, every endpoint made has been closed.
C11_NoEndpointLeak ==
    /\ \A j, k \in ConfigIDs :
          (j < k /\ endpoint[k].st # "none") =>
              endpoint[j].st \in {"none", "closed"}
    /\ mpc = "exited" =>
          \A k \in ConfigIDs : endpoint[k].st \in {"none", "closed"}

\* C12  Per-round reset: every step that advances the round number r leaves
\* sentEcho empty, sentReport false, completedRound false and receivedEcho
\* all false.
C12_PerRoundReset ==
    [][r' # r =>
          /\ sentEcho' = {}
          /\ ~sentReport'
          /\ ~completedRound'
          /\ receivedEcho' = NoEcho]_vars

\* the ObserveReq of the round after the leader's last
ExpiryReq == [epoch |-> e, round |-> RMax + 1]

\* the ChangeLeader events of a state's ev
ChangeLeaders(events) == {x \in events : x.t = "ChangeLeader"}

\* C13 (as stated)  Leader expiry: below round RMax+1 the leader's ObserveReq
\* of round RMax+1 passes the guards; the step that handles it sets r to
\* RMax+1, sends no MessageObserve and goes to the send of ChangeLeader, and
\* the handler never leaves that send without ChangeLeader being emitted.
C13_Original ==
    /\ [](r < RMax + 1 => observeReqGuards(ExpiryReq, l) = "pass")
    /\ [][ /\ (r < RMax + 1 /\ messageObserveReq(ExpiryReq, l)) =>
                     /\ r' = RMax + 1
                     /\ net' = {}
                     /\ ev' = {}
                     /\ pc' = "sendChangeLeader"
           /\ (pc = "sendChangeLeader" /\ pc' # "sendChangeLeader") =>
                 /\ ChangeLeaders(ev') # {}
                 /\ net' = {} ]_vars

\* C13 (amended)  As C13, but the handler may leave the send without a
\* ChangeLeader when the follower's context has been cancelled.
C13_LeaderExpiry ==
    /\ [](r < RMax + 1 => observeReqGuards(ExpiryReq, l) = "pass")
    /\ [][ /\ (r < RMax + 1 /\ messageObserveReq(ExpiryReq, l)) =>
                     /\ r' = RMax + 1
                     /\ net' = {}
                     /\ ev' = {}
                     /\ pc' = "sendChangeLeader"
           /\ (pc = "sendChangeLeader" /\ pc' # "sendChangeLeader") =>
                 /\ ChangeLeaders(ev') # {} \/ ctxDone
                 /\ net' = {}
                 /\ r' = RMax + 1 ]_vars

\* ChangeLeader has just been emitted in round RMax+1
C13_Witness ==
    /\ ChangeLeaders(ev) # {}
    /\ r = RMax + 1
    /\ log = [h |-> "ObserveReq", m |-> "time to change leader"]
    /\ pc = "idle"

\* the ObserveReq rounds beyond RMax+1 that the environment delivers
BeyondExpiry == {rd \in Rounds : RMax + 1 < rd}

\* C14  Bounded leader changes: an ObserveReq of the follower's epoch with a
\* round above RMax+1 never passes the guards, whoever sends it; the step
\* that handles it leaves followerState unchanged, sends nothing and emits
\* no event; and the pacemaker takes at most one ChangeLeader from the
\* follower in an epoch.
C14_BoundedLeaderChanges ==
    /\ [](/\ \A rd \in BeyondExpiry, s \in OracleIDs :
                observeReqGuards([epoch |-> e, round |-> rd], s) \in
                    HeaderDrops
          /\ changeLeaders <= 1)
    /\ [][ /\ \A rd \in BeyondExpiry :
                 messageObserveReq([epoch |-> e, round |-> rd], l)
                     => /\ Dropped
                        /\ ChangeLeaders(ev') = {}
                        /\ pc' = "idle"
           /\ ChangeLeaders(ev') # {} =>
                 changeLeaders' = changeLeaders + 1 ]_vars

\* a leader that sent round RMax+2 after its ChangeLeader was taken: the
\* message was dropped and the count stays at one
C14_Witness ==
    /\ changeLeaders = 1
    /\ r = RMax + 1
    /\ log = [h |-> "ObserveReq", m |-> "out of bounds round"]
    /\ ev = {}
    /\ pc = "idle"

\* the delivered headers of another epoch, and those of the leader's kinds
\* of message from an oracle that is not the leader
OtherEpoch == {h \in Headers(OracleIDs) : h.epoch # e}
NonLeader == {h \in Headers(LeaderOrNot) : h.sender # l}

\* C15  Guarded drops are no-ops: in every state each of the four guards
\* refuses a message of another epoch for its epoch, and the guards of
\* ObserveReq, ReportReq and Final refuse a message of a non-leader for its
\* sender, whatever the payload, while a FinalEcho of the round with a valid
\* report passes from any sender not yet recorded; every step that handles a
\* message of another epoch or a leader's message from a non-leader leaves
\* followerState and the task's position unchanged, sends nothing and emits
\* no event.
C15_GuardedDrops ==
    /\ [](/\ \A h \in OtherEpoch \cup NonLeader :
                LET hdr == [epoch |-> h.epoch, round |-> h.round]
                    why == IF h.epoch # e THEN "wrong epoch"
                           ELSE "non-leader"
                IN /\ observeReqGuards(hdr, h.sender) = why
                   /\ \A asos \in SampleAsos :
                         reportReqGuards(
                             [epoch |-> h.epoch, round |-> h.round,
                              asos |-> asos], h.sender) = why
                   /\ \A rep \in ReportsOf(h.round) :
                         finalGuards(
                             [epoch |-> h.epoch, round |-> h.round,
                              report |-> rep], h.sender)
                             \in {why, "wrong round"}
          /\ \A h \in OtherEpoch : \A rep \in ReportsOf(h.round) :
                finalEchoGuards([epoch |-> h.epoch, round |-> h.round,
                                 report |-> rep], h.sender) = "wrong epoch"
          /\ \A s \in OracleIDs, rep \in ReportsOf(r) :
                ( /\ ~receivedEcho[s]
                  /\ ~completedRound
                  /\ verifyAttestedReport(rep) ) =>
                    finalEchoGuards(ThisRound(rep), s) = "pass")
    /\ [][ (pc = "idle" /\ ~Dropped) =>
              /\ \A h \in OtherEpoch \cup NonLeader :
                    /\ ~messageObserveReq(
                            [epoch |-> h.epoch, round |-> h.round],
                            h.sender)
                    /\ ~messageReportReq(
                            [epoch |-> h.epoch, round |-> h.round,
                             asos |-> PlainAsos(0, 1)], h.sender)
                    /\ ~messageFinal(
                            [epoch |-> h.epoch, round |-> h.round,
                             report |-> DefaultReport], h.sender)
              /\ \A h \in OtherEpoch :
                    ~messageFinalEcho(
                         [epoch |-> h.epoch, round |-> h.round,
                          report |-> DefaultReport], h.sender) ]_vars

\* a Final from a non-leader has just been dropped in a round in which the
\* follower had sent its report and recorded a non-leader's echo
C15_Witness ==
    /\ log = [h |-> "Final", m |-> "non-leader"]
    /\ sentReport
    /\ \E s \in OracleIDs \ {l} : receivedEcho[s]
    /\ net = {}
    /\ ev = {}

\* the three reasons to report: the contract has our configuration and has
\* seen no transmission; the median observation deviates from the
\* contract's answer by more than AlphaPPB; the contract's answer is older
\* than DeltaC
ReasonToReport(observations, ltd) ==
    \/ ltd.digestEq /\ ltd.epoch = 0 /\ ltd.round = 0
    \/ Deviates(observations[(Len(observations) \div 2) + 1].value,
                ltd.answer, AlphaPPB)
    \/ ltd.stale

\* C16  shouldReport policy: shouldReport returns true when
\* LatestTransmissionDetails returns an error, and otherwise returns true
\* exactly when there is a reason to report (initial round, deviation or
\* heartbeat).
C16_ShouldReportPolicy ==
    result # "none" =>
        result = IF details.err \/ ReasonToReport(inbox, details)
                 THEN "true" ELSE "false"

\* C17  Timeouts on external calls: for each of the four external calls,
\* once the timeout of the call has elapsed while the core waits in it, the
\* core eventually goes on, whatever the collaborator does.
C17_TimeoutsOnExternalCalls ==
    \A c \in ExternalCalls :
        (calls[c].core = "waiting" /\ calls[c].ctx = "done")
            ~> (calls[c].core = "proceeded")

\* the follower's task is blocked in the send of an outbound event
Blocked == pc \in {"sendChangeLeader", "sendTransmit", "sendProgress"}

\* C18  Cancellation never deadlocks the follower: a handler blocked in the
\* send of ChangeLeader, Transmit or Progress while the follower's context is
\* cancelled eventually returns, even if nobody receives from the channels.
C18_CancellationNeverDeadlocks ==
    (ctxDone /\ Blocked) ~> (pc = "idle")

\* the handler of the ObserveReq of round RMax+1 has returned from its select
\* on the cancelled context: ChangeLeader was never taken
C18_Witness ==
    /\ ctxDone
    /\ pc = "idle"
    /\ r = RMax + 1
    /\ log = [h |-> "ObserveReq", m |-> "time to change leader"]
    /\ changeLeaders = 0
    /\ ev = {}

\* C19  Supervisor shutdown: once the supervisor's context is cancelled run
\* eventually returns; and when run has returned no protocol task runs, no
\* endpoint is started and not closed, and the telemetry forwarder, the
\* config tracker and the garbage collector have exited.
C19_SupervisorShutdown ==
    /\ [](mpc = "exited" =>
              /\ \A k \in ConfigIDs : task[k] # "running"
              /\ Live = {}
              /\ otherTasks = {})
    /\ moCtxDone ~> (mpc = "exited")

\* configChanged returns on an error of the decoding, of MakeEndpoint or of
\* Start, before RunOracle is spawned
AbortedTransition ==
    /\ mpc \in {"decode", "makeEndpoint", "start"}
    /\ mpc' = AfterConfigChanged

\* C20  Recovery from a failed config transition: while configChanged
\* decodes, makes and starts the endpoint no protocol task runs and no
\* endpoint is live; a step in which one of the three fails spawns no task,
\* stores no endpoint and no cancel function, and returns to run, which goes
\* on to its select; and whenever configChanged gets past Start, whatever
\* failed before, the protocol task is spawned on the endpoint just started.
C20_Recovery ==
    /\ [](mpc \in {"decode", "makeEndpoint", "start"} =>
              /\ \A k \in ConfigIDs : task[k] # "running"
              /\ Live = {}
              /\ oracleCancel = 0
              /\ netEndpoint = 0)
    /\ [][ /\ AbortedTransition =>
                 /\ task' = task
                 /\ Live' = {}
                 /\ oracleCancel' = 0
                 /\ netEndpoint' = 0
                 /\ mpc' \in {"spawn", "select"}
                 /\ mlog' \in {"error while updating config",
                               "error during MakeEndpoint",
                               "error during netEndpoint.Start()"}
           /\ (mpc = "runOracle" /\ mpc' # "runOracle") =>
                 /\ task'[nconf] = "running"
                 /\ Live' = {nconf}
                 /\ oracleCancel' = nconf
                 /\ netEndpoint' = nconf ]_vars

\* after a config change that failed at Start, the next config change has
\* started a protocol instance
C20_Witness ==
    /\ endpoint[1].st = "startFailed"
    /\ task[1] = "none"
    /\ task[2] = "running"
    /\ endpoint[2].st = "started"
    /\ netEndpoint = 2
    /\ mpc = "select"

\* the positions of run inside configChanged and the closeOracle it calls
InConfigChanged ==
    {"closeOracle", "oracleWait", "endpointClose", "clearRefs", "decode",
     "makeEndpoint", "start", "runOracle", "writeConfig", "inWriteConfig"}

\* C21  Config restore: loadConfigFromDatabase yields the stored config
\* when ReadConfig succeeds and nothing when it fails; the step that ends
\* the restore calls configChanged exactly for a stored config read
\* in time, and otherwise logs why and goes on with nothing started; the
\* configChanged of the restore runs, and spawns its protocol task on a
\* started endpoint, before TrackConfig and the other subprocesses are
\* spawned; and without a restored config run reaches its select.
C21_ConfigRestore ==
    /\ [](/\ loadConfigFromDatabase("error") = {}
          /\ loadConfigFromDatabase("ok") = persisted
          /\ (mpc = "restore" \/ (ret = "restore" /\ mpc \in InConfigChanged)
                \/ mpc = "spawn") =>
                 /\ otherTasks = {}
                 /\ chNewConfig = 0
          /\ (mpc = "spawn" /\ ret = "none") =>
                 /\ \A k \in ConfigIDs : task[k] = "none"
                 /\ \A k \in ConfigIDs : endpoint[k].st = "none"
                 /\ mlog \in {"database timed out while attempting to restore",
                              "Error during Database.ReadConfig",
                              "no configuration to restore"}
                 /\ (mlog = "no configuration to restore" => persisted = {}))
    /\ [][ /\ (mpc = "restore" /\ mpc' # "restore") =>
                 IF mpc' = "closeOracle"
                 THEN /\ persisted # {}
                      /\ ret' = "restore"
                      /\ nconf' = 1
                 ELSE /\ mpc' = "spawn"
                      /\ ret' = "none"
           /\ (ret = "restore" /\ mpc = "runOracle" /\ mpc' # "runOracle") =>
                 /\ task'[1] = "running"
                 /\ endpoint'[1].st = "started"
                 /\ otherTasks' = {} ]_vars
    /\ (mpc = "spawn" /\ ret = "none") ~> (mpc = "select")

\* the restored config has a running protocol task on a started endpoint
\* and run is about to spawn TrackConfig
C21_Witness ==
    /\ mpc = "spawn"
    /\ ret = "restore"
    /\ task[1] = "running"
    /\ endpoint[1].st = "started"
    /\ otherTasks = {}
    /\ persisted = {1}

---------------------------------------------------------------------------
(* Missing observation.                                                    *)

\* what the data source does when observeValue has no value to give
MissingCauses == {"timeout", "error", "outOfRange"}

\* the log line of the early return of messageObserveReq at a missing value
MissingValue == [h |-> "ObserveReq", m |-> "missing value"]

\* the reports that verify in the follower's current round
RoundReports == {rep \in ReportsOf(r) : verifyAttestedReport(rep)}

\* C22  Missing observation: an accepted ObserveReq of a round up to RMax
\* sets the round and resets the per-round state before observeValue is
\* called; when the data source then times out, fails or answers out of
\* range, the handler returns without a MessageObserve and with that state
\* untouched, so that in the state it leaves a valid ReportReq and a valid
\* Final of the leader and a valid FinalEcho of any oracle pass their
\* guards.
C22_MissingObservation ==
    /\ []((log = MissingValue /\ pc = "idle") =>
            /\ r \in 1 .. RMax
            /\ net = {}
            /\ ev = {}
            /\ sentEcho = {}
            /\ ~sentReport
            /\ ~completedRound
            /\ receivedEcho = NoEcho
            /\ RoundReports # {}
            /\ reportReqGuards([epoch |-> e, round |-> r,
                                asos |-> PlainAsos(2 * F + 1, 1)], l) = "pass"
            /\ \A rep \in RoundReports :
                  /\ finalGuards([epoch |-> e, round |-> r,
                                  report |-> rep], l) = "pass"
                  /\ \A o \in OracleIDs :
                        finalEchoGuards([epoch |-> e, round |-> r,
                                         report |-> rep], o) = "pass")
    /\ [](pc = "observeValue" =>
            /\ r \in 1 .. RMax
            /\ sentEcho = {}
            /\ ~sentReport
            /\ ~completedRound
            /\ receivedEcho = NoEcho)
    /\ [][/\ \A rd \in 1 .. RMax :
                LET msg == [epoch |-> e, round |-> rd]
                IN (/\ r' = rd
                    /\ observeReqGuards(msg, l) = "pass"
                    /\ messageObserveReq(msg, l))
                   => /\ pc' = "observeValue"
                      /\ net' = {}
          /\ \A ds \in MissingCauses :
                observeValueReturns(ds, "ok")
                   => /\ log' = MissingValue
                      /\ net' = {}
                      /\ pc' = "idle"
                      /\ UNCHANGED follower
                      /\ observeValue(ds) = "missing"]_vars

\* the state a missing observation of the last round leaves
C22_Witness ==
    /\ log = MissingValue
    /\ r = RMax
    /\ net = {}
    /\ sentEcho = {}
    /\ ~sentReport
    /\ receivedEcho = NoEcho

---------------------------------------------------------------------------
(* BootstrapNode: Start and Close called by goroutines that may race.  A   *)
(* caller is "idle" before its first call, "started" and "closed" after a  *)
(* Start and a Close that returned nil, "panicked" after the panic of      *)
(* failIfAlreadyStarted, and between the steps of a call "acquired" (past  *)
(* failIfAlreadyStarted), "go" (b.cancel assigned) or "wait" (in           *)
(* b.subprocesses.Wait()).                                                 *)

\* semaphore.Weighted.TryAcquire(1) that always succeeds
TryAcquireAlways(held) == TRUE

\* semaphore.Weighted.TryAcquire(1) on a semaphore of weight 1
TryAcquire(held) == ~held

\* a caller that may make its next call
BetweenCalls(c) == callers[c].pc \in {"idle", "started", "closed"}

\* Start up to failIfAlreadyStarted: panic unless the semaphore is acquired
failIfAlreadyStarted(c) ==
    /\ BetweenCalls(c)
    /\ IF TryAcquire(started)
       THEN /\ started' = TRUE
            /\ callers' = [callers EXCEPT ![c].pc = "acquired"]
       ELSE /\ callers' = [callers EXCEPT ![c].pc = "panicked"]
            /\ UNCHANGED started
    /\ UNCHANGED <<bCancel, bCtxDone, subprocesses, bootstrapTask>>
    /\ UNCHANGED <<fvars, inbox, details, result, calls, managed>>

\* Start: ctx, cancel := context.WithCancel(...); b.cancel = cancel
assignCancel(c) ==
    /\ callers[c].pc = "acquired"
    /\ bCancel' = TRUE
    /\ callers' = [callers EXCEPT ![c].pc = "go"]
    /\ UNCHANGED <<started, bCtxDone, subprocesses, bootstrapTask>>
    /\ UNCHANGED <<fvars, inbox, details, result, calls, managed>>

\* Start: b.subprocesses.Go(RunManagedBootstrapNode); return nil
goBootstrap(c) ==
    /\ callers[c].pc = "go"
    /\ subprocesses' = subprocesses + 1
    /\ bootstrapTask' = "running"
    /\ callers' = [callers EXCEPT ![c].pc = "started"]
    /\ UNCHANGED <<started, bCancel, bCtxDone>>
    /\ UNCHANGED <<fvars, inbox, details, result, calls, managed>>

\* Close up to Wait: if b.cancel != nil { b.cancel() }
cancelIfStarted(c) ==
    /\ BetweenCalls(c)
    /\ bCtxDone' = (bCtxDone \/ bCancel)
    /\ callers' = [callers EXCEPT ![c] = [pc |-> "wait",
                                       afterStart |-> bootstrapTask # "none"]]
    /\ UNCHANGED <<started, bCancel, subprocesses, bootstrapTask>>
    /\ UNCHANGED <<fvars, inbox, details, result, calls, managed>>

\* Close: b.subprocesses.Wait() returns; return nil
closeReturns(c) ==
    /\ callers[c].pc = "wait"
    /\ subprocesses = 0
    /\ callers' = [callers EXCEPT ![c].pc = "closed"]
    /\ UNCHANGED <<started, bCancel, bCtxDone, subprocesses, bootstrapTask>>
    /\ UNCHANGED <<fvars, inbox, details, result, calls, managed>>

\* the task of Start: RunManagedBootstrapNode returns, which its run does
\* only from the ctx.Done() case of its select; then the deferred cancel()
bootstrapReturns ==
    /\ bootstrapTask = "running"
    /\ bCtxDone
    /\ bootstrapTask' = "exited"
    /\ subprocesses' = subprocesses - 1
    /\ UNCHANGED <<started, bCancel, bCtxDone, callers>>
    /\ UNCHANGED <<fvars, inbox, details, result, calls, managed>>

NextBootstrap ==
    \/ \E c \in Callers : failIfAlreadyStarted(c)
    \/ \E c \in Callers : assignCancel(c)
    \/ \E c \in Callers : goBootstrap(c)
    \/ \E c \in Callers : cancelIfStarted(c)
    \/ \E c \in Callers : closeReturns(c)
    \/ bootstrapReturns

SpecBootstrap == Init /\ [][NextBootstrap]_vars

\* the callers inside Start, past failIfAlreadyStarted
InStart == {c \in Callers : callers[c].pc \in {"acquired", "go"}}

\* C23  BootstrapNode lifecycle: over callers of Start and Close that race,
\* a Start gets past failIfAlreadyStarted only if none did before and every
\* other Start panics, so that at most one managed bootstrap task is ever
\* started; a Close may be called before and after Start and any number of
\* times, and when it returns no managed bootstrap task is running: the
\* task has exited if a Start had returned when Close was called.
C23_BootstrapLifecycle ==
    /\ [](/\ Cardinality(InStart) <= 1
          /\ subprocesses \in 0 .. 1
          /\ (bootstrapTask = "running" => subprocesses = 1)
          /\ (InStart # {} \/ bootstrapTask # "none" => started)
          /\ (bootstrapTask # "none" => bCancel))
    /\ [][/\ started => started'
          /\ bootstrapTask # "none" => bootstrapTask' # "none"
          /\ \A c \in Callers :
                /\ failIfAlreadyStarted(c) =>
                      callers'[c].pc =
                          IF started THEN "panicked" ELSE "acquired"
                /\ (callers[c].pc = "acquired" /\ callers'[c] # callers[c])
                      => (callers'[c].pc = "go" /\ bCancel')
                /\ (callers[c].pc = "go" /\ callers'[c] # callers[c])
                      => (callers'[c].pc = "started"
                          /\ bootstrapTask = "none"
                          /\ bootstrapTask' = "running")
                /\ (callers[c].pc = "wait" /\ callers'[c] # callers[c])
                      => /\ callers'[c].pc = "closed"
                         /\ bootstrapTask' # "running"
                         /\ callers[c].afterStart
                               => bootstrapTask' = "exited"]_vars

\* one caller's Start returned, another's panicked, and of two Close calls
\* that returned one was made before the Start and one after it
C23_Witness ==
    \E c1, c2, c3 \in Callers :
        /\ callers[c1].pc = "panicked"
        /\ callers[c2] = [pc |-> "closed", afterStart |-> FALSE]
        /\ callers[c3] = [pc |-> "closed", afterStart |-> TRUE]
        /\ bootstrapTask = "exited"
        /\ started

---------------------------------------------------------------------------
(* Outcome of an accepted ReportReq.                                       *)

\* the MessageReport messages among msgs
MessageReports(msgs) == {x \in msgs : x.t = "Report"}

\* the MessageReport of the follower's round, unicast to the leader
RoundReport == [t |-> "Report", epoch |-> e, round |-> r, to |-> l]

\* what messageReportReq logs for a ReportReq that passed its guards
AcceptedReportReq ==
    {[h |-> "ReportReq", m |-> m] :
        m \in {"sent report", "completed round", "failed to sign report",
               "could not verify my own signature"}}

\* C24 as stated: an accepted ReportReq has exactly one of two outcomes,
\* sentReport set and one MessageReport sent to the leader with
\* completedRound left false if shouldReport is true, the round completed
\* and nothing sent if it is false.
C24_Original ==
    [][(pc = "shouldReport" /\ pc' # "shouldReport") =>
       \A ltd \in SampleLTDs : \A sg \in SignOutcomes :
          \/ IF shouldReport(inbox, ltd)
             THEN /\ sentReport'
                  /\ net' = {RoundReport}
                  /\ ~completedRound'
             ELSE /\ completedRound'
                  /\ ~sentReport'
                  /\ net' = {}
          \/ ~shouldReportReturns(inbox, ltd, sg)]_vars

\* C24  ReportReq outcome: an accepted ReportReq has exactly one of three
\* outcomes.  If shouldReport is true and the report is signed and verifies,
\* sentReport is set and one MessageReport is unicast to the leader, with
\* completedRound left false; if shouldReport is true and signing or the
\* verification of the own signature fails, the message is dropped with the
\* follower state unchanged; if shouldReport is false the round is completed
\* and no report is sent, the Progress event being offered in a select with
\* ctx.Done().  Over any number of deliveries of the ReportReq, a
\* MessageReport is sent only for the follower's round and by a step that
\* finds sentReport false and sets it, and sentReport stays set while the
\* round lasts: at most one MessageReport is sent per (epoch, round).
C24_ReportReqOutcome ==
    /\ [](pc = "shouldReport" =>
             /\ reportReqGuards(InFlight, l) = "pass"
             /\ ~sentReport
             /\ ~completedRound)
    /\ [][(/\ reportReqGuards(InFlight, l) = "pass"
           /\ messageReportReq(InFlight, l)) =>
             /\ pc' = "shouldReport"
             /\ UNCHANGED follower
             /\ net' = {}
             /\ ev' = {}]_vars
    /\ [][(pc = "shouldReport" /\ pc' # "shouldReport") =>
          (/\ log' \in AcceptedReportReq
           /\ \A ltd \in SampleLTDs :
             LET report == shouldReport(inbox, ltd)
             IN \A sg \in SignOutcomes :
                   \/ IF report /\ sg = "ok"
                      THEN /\ sentReport'
                           /\ net' = {RoundReport}
                           /\ ~completedRound'
                           /\ pc' = "idle"
                      ELSE IF report
                      THEN /\ UNCHANGED follower
                           /\ net' = {}
                           /\ pc' = "idle"
                           /\ log'.m \in
                                 {"failed to sign report",
                                  "could not verify my own signature"}
                      ELSE /\ completedRound'
                           /\ ~sentReport'
                           /\ net' = {}
                           /\ pc' = "sendProgress"
                   \/ ~shouldReportReturns(inbox, ltd, sg))]_vars
    /\ [][pc = "sendProgress" =>
            /\ pc' \in {"sendProgress", "idle"}
            /\ pc' = "idle" =>
                  (ev' = {[t |-> "Progress"]} \/ (ctxDone /\ ev' = {}))]_vars
    /\ [][/\ r' >= r
          /\ (sentReport /\ r' = r) => sentReport'
          /\ MessageReports(net') # {} =>
                /\ net' = {RoundReport}
                /\ r' = r
                /\ ~sentReport
                /\ sentReport']_vars

\* the report of the round has been sent and a second delivery of the
\* ReportReq has been dropped
C24_Witness ==
    /\ log = [h |-> "ReportReq", m |-> "after report sent"]
    /\ sentReport
    /\ ~completedRound
    /\ net = {}
    /\ verifyReportReq(inbox) = "ok"

---------------------------------------------------------------------------
(* Transmit and Progress at most once per round.                           *)

\* the Progress events among events
Progresses(events) == {x \in events : x.t = "Progress"}

\* C25  At most once per round: over every sequence and duplication of
\* ObserveReq, ReportReq, Final and FinalEcho, a Transmit is emitted only for
\* the follower's round and by a step that finds completedRound false and
\* sets it, and a Progress only by the one send that follows a step setting
\* completedRound; completedRound stays set while the round lasts, the
\* round changes only between handlers and never falls.  Hence at most one
\* Transmit and at most one Progress per (epoch, round).
C25_AtMostOncePerRound ==
    /\ [](/\ pc = "sendProgress" => completedRound
          /\ pc = "sendTransmit" => (~completedRound /\ sentEcho # {}))
    /\ [][/\ r' >= r
          /\ r' # r =>
                (pc = "idle" /\ pc' \in {"observeValue", "sendChangeLeader"})
          /\ (completedRound /\ r' = r) => completedRound'
          /\ Transmits(ev') # {} =>
                /\ ev' = {EventTransmit}
                /\ pc = "sendTransmit"
                /\ pc' = "sendProgress"
                /\ ~completedRound
                /\ completedRound'
                /\ r' = r
          /\ Progresses(ev') # {} =>
                /\ ev' = {[t |-> "Progress"]}
                /\ pc = "sendProgress"
                /\ pc' = "idle"
                /\ r' = r
          /\ (pc # "sendProgress" /\ pc' = "sendProgress") =>
                /\ ~completedRound
                /\ completedRound'
                /\ r' = r
          /\ (pc # "sendTransmit" /\ pc' = "sendTransmit") =>
                /\ pc = "idle"
                /\ ~completedRound'
                /\ r' = r]_vars

\* after the Transmit and the Progress of the last round, a further
\* FinalEcho and a ReportReq of the round have been dropped
C25_Witness ==
    /\ r = RMax
    /\ completedRound
    /\ pc = "idle"
    /\ Echoes(receivedEcho) = F + 1
    /\ sentReport
    /\ log = [h |-> "ReportReq", m |-> "after report sent"]

---------------------------------------------------------------------------
(* Round budget.                                                           *)

\* the MessageObserve and MessageReport messages among msgs
ObservesAndReports(msgs) == {x \in msgs : x.t \in {"Observe", "Report"}}

\* C26  Round budget: every Transmit, MessageObserve and MessageReport
\* carries a round in 1 .. RMax, and a follower whose round is RMax+1
\* produces no Transmit, MessageObserve, MessageReport or Progress.
C26_RoundBudget ==
    [][/\ \A x \in Transmits(ev') \cup ObservesAndReports(net') :
             x.round \in 1 .. RMax
       /\ r = RMax + 1 =>
             /\ Transmits(ev') = {}
             /\ Progresses(ev') = {}
             /\ ObservesAndReports(net') = {}]_vars

---------------------------------------------------------------------------
(* Telemetry wiring.                                                       *)

\* C27  Telemetry wiring: every endpoint the supervisor has started, the
\* one of the restored config included, was given the telemetry channel
\* that run makes for forwardTelemetry.
C27_TelemetryWiring == \A k \in Live : endpoint[k].telemetry

---------------------------------------------------------------------------
(* Persistence follows success.                                            *)

\* configChanged is at its call of WriteConfig, or inside it
AtWriteConfig == mpc \in {"writeConfig", "inWriteConfig"}

\* the instance of the configChanged in progress: its endpoint is started
\* and is the supervisor's, and its protocol task has been spawned
InstanceUp(ep, tk, ne, oc) ==
    /\ ep[nconf].st = "started"
    /\ tk[nconf] \in {"running", "exited"}
    /\ ne = nconf
    /\ oc = nconf

\* C28  Persistence follows success: configChanged reaches WriteConfig only
\* with the endpoint of its config started and its protocol task spawned,
\* and the database changes only by that call, to that config; a
\* configChanged that fails at decoding, MakeEndpoint or Start leaves the
\* database as it was; a WriteConfig that fails or times out leaves the
\* database as it was and the instance just started as it is, its endpoint
\* open and its task not cancelled.
C28_PersistenceFollowsSuccess ==
    /\ [](AtWriteConfig => InstanceUp(endpoint, task, netEndpoint,
                                      oracleCancel))
    /\ [][/\ persisted' # persisted =>
                /\ mpc = "writeConfig"
                /\ persisted' = {nconf}
                /\ InstanceUp(endpoint, task, netEndpoint, oracleCancel)
          /\ AbortedTransition => persisted' = persisted
          /\ (mpc = "writeConfig" /\ mpc' # "writeConfig"
              /\ persisted' # {nconf}) =>
                /\ persisted' = persisted
                /\ task' = task
                /\ endpoint' = endpoint
                /\ oracleCtxDone' = oracleCtxDone
                /\ InstanceUp(endpoint', task', netEndpoint', oracleCancel')
                /\ mpc' = "inWriteConfig" \/
                      mlog' = "error writing new config to database"]_vars

\* the second config's instance runs after its WriteConfig failed: the
\* database still holds the first config
C28_Witness ==
    /\ nconf = 2
    /\ persisted = {1}
    /\ mlog = "error writing new config to database"
    /\ task[2] = "running"
    /\ endpoint[2].st = "started"
    /\ mpc = "select"

====
